---- MODULE Spec2Model ----
(***************************************************************************)
(* Model of the openaiproxy repository: the Node proxy (TTLCache,          *)
(* RateLimiter, the request handler of server.js) and the Go proxy's       *)
(* rate-limit middleware.                                                  *)
(*                                                                         *)
(* Time is the value Date.now() returns, in milliseconds.  Token counts    *)
(* of the Node RateLimiter are JavaScript numbers; they are kept here as   *)
(* integers in units of 1/MsPerSec token, which is exact for the clock     *)
(* readings and refill rates the model draws.                              *)
(***************************************************************************)
EXTENDS Integers, Sequences, FiniteSets, TLC

VARIABLES
    now,        \* the value Date.now() returns
    cache,      \* the TTLCache object
    ret,        \* the value the last TTLCache or RateLimiter call returned
    limiter,    \* the RateLimiter object
    config,     \* the Node proxy's configuration (server.js, Config)
    counters,   \* the Node proxy's observability counters
    req,        \* the Node request handler's invocations: position and locals
    upstream,   \* the calls the upstream has received, per invocation
    workload,   \* the requests the clients of this run send
    goNow,      \* Go proxy: time.Now(), in seconds
    goTicker,   \* Go proxy: when the cleanup ticker delivers its next tick
    goRateLimiter,  \* Go proxy: the middleware's RateLimiter struct
    goHeap,     \* Go proxy: the rate.Limiter objects, by address
    goReq,      \* Go proxy: the invocations of the middleware or of the handler
    goConfig,   \* Go proxy: the configuration (config.go)
    goCache,    \* Go proxy: the response cache
    goUpstream, \* Go proxy: the requests sent upstream, per invocation
    calls,      \* history: the tryRemoveToken calls made, with their results
    lastOp,     \* history: the TTLCache method called last
    touched     \* history: the cache keys by their last touch, latest first

nodeVars == <<config, counters, req, upstream, workload>>

goProxyVars == <<goConfig, goCache, goUpstream>>

goVars == <<goNow, goTicker, goRateLimiter, goHeap, goReq, goConfig, goCache, goUpstream>>

histVars == <<calls, lastOp, touched>>

vars == <<calls, lastOp, touched, now, cache, ret, limiter, config, counters,
          req, upstream, workload, goNow, goTicker, goRateLimiter, goHeap, goReq,
          goConfig, goCache, goUpstream>>

(***************************************************************************)
(* Bounds of the model.                                                    *)
(***************************************************************************)
MaxTime == 1000
MaxEntriesBound == 2
MaxOps == 4
MaxTokensBound == 2
MaxLimited == 2
MaxReqs == 3
MaxInFlight == 2
MaxGoTime == 300
MaxCalls == 3
MaxCacheMB == 2

ClockSteps == {1000}

\* JavaScript null, for the node references head, tail, prev and next.
Null == 0

\* the value get returns for an absent key
NullValue == [null |-> TRUE]

Min(a, b) == IF a < b THEN a ELSE b

Range(f) == {f[x] : x \in DOMAIN f}

(***************************************************************************)
(* TTLCache (openai-proxy/src/cache.js).  The cache object is a record;    *)
(* its nodes live in `node`, a function from node identities to the node   *)
(* objects {k, value, expiresAt, prev, next}.  Each operator takes the     *)
(* cache object and returns the cache object after the method has run.     *)
(***************************************************************************)
CacheKeys == {<<"k1">>, <<"k2">>, <<"k3">>}

CacheValues == {[status |-> 200, headers |-> <<>>, body |-> "b1"],
                [status |-> 200, headers |-> <<>>, body |-> "b2"]}

\* ttlOverrideMs: undefined, or a number
TtlArgs == {[given |-> FALSE, ms |-> 0], [given |-> TRUE, ms |-> 0]}

NodeIds == 1..(MaxEntriesBound + 2)

TTLCache(ttlMs, maxEntries) ==
    [ttlMs |-> ttlMs, maxEntries |-> maxEntries,
     map |-> <<>>, node |-> <<>>, head |-> Null, tail |-> Null,
     stats |-> [hits |-> 0, misses |-> 0, stores |-> 0, evictions |-> 0]]

\* new Map().delete(k)
MapDelete(m, k) == [x \in DOMAIN m \ {k} |-> m[x]]

\* new Map().set(k, v)
MapSet(m, k, v) == [x \in DOMAIN m \cup {k} |-> IF x = k THEN v ELSE m[x]]

_attach(c, n) ==
    LET n1 == [c.node EXCEPT ![n].prev = Null, ![n].next = c.head]
        n2 == IF c.head # Null THEN [n1 EXCEPT ![c.head].prev = n] ELSE n1
    IN  [c EXCEPT !.node = n2, !.head = n,
                  !.tail = IF c.tail = Null THEN n ELSE c.tail]

\* a _detach that does not move the tail when the last node leaves the list
_detachKeepTail(c, n) ==
    LET p  == c.node[n].prev
        c1 == IF p # Null THEN [c EXCEPT !.node[p].next = c.node[n].next]
                          ELSE [c EXCEPT !.head = c.node[n].next]
        x  == c1.node[n].next
        c2 == IF x # Null THEN [c1 EXCEPT !.node[x].prev = c1.node[n].prev]
                          ELSE c1
    IN  [c2 EXCEPT !.node[n].prev = Null, !.node[n].next = Null]

_detach(c, n) ==
    LET p  == c.node[n].prev
        c1 == IF p # Null THEN [c EXCEPT !.node[p].next = c.node[n].next]
                          ELSE [c EXCEPT !.head = c.node[n].next]
        x  == c1.node[n].next
        c2 == IF x # Null THEN [c1 EXCEPT !.node[x].prev = c1.node[n].prev]
                          ELSE [c1 EXCEPT !.tail = c1.node[n].prev]
    IN  [c2 EXCEPT !.node[n].prev = Null, !.node[n].next = Null]

\* a _moveToFront that leaves the list as it is
_moveToFrontNone(c, n) == c

_moveToFront(c, n) ==
    IF c.head = n THEN c ELSE _attach(_detach(c, n), n)

\* the loop condition of _evictIfNeeded, with one slot too many allowed
EvictGuardOffByOne(c) ==
    Cardinality(DOMAIN c.map) > c.maxEntries + 1 /\ c.tail # Null

EvictGuard(c) ==
    Cardinality(DOMAIN c.map) > c.maxEntries /\ c.tail # Null

RECURSIVE _evictIfNeeded(_)
_evictIfNeeded(c) ==
    IF EvictGuard(c)
    THEN LET n  == c.tail
             c1 == _detach(c, n)
         IN  _evictIfNeeded([c1 EXCEPT !.map = MapDelete(c1.map, c1.node[n].k),
                                       !.stats.evictions = @ + 1])
    ELSE c

\* an expiry test that lets the entry live through the instant it expires
_isExpiredAfter(nd, t) == nd.expiresAt < t

_isExpired(nd, t) == nd.expiresAt <= t

\* Node objects nothing refers to any more are dropped (garbage collection):
\* what stays is what the map, head, tail and the links of kept nodes reach.
RECURSIVE Reach(_, _)
Reach(c, S) ==
    LET T == S \cup {c.node[n].prev : n \in S} \cup {c.node[n].next : n \in S}
        U == (T \ {Null}) \cap DOMAIN c.node
    IN  IF U = S THEN S ELSE Reach(c, U)

Collect(c) ==
    LET live == Reach(c, (Range(c.map) \cup {c.head, c.tail}) \ {Null})
    IN  [c EXCEPT !.node = [n \in live |-> c.node[n]]]

\* the identity of an object made by an object literal: one not in use
NewNode(c) ==
    CHOOSE i \in NodeIds : i \notin DOMAIN c.node
                           /\ \A j \in NodeIds : j < i => j \in DOMAIN c.node

\* a get that does not count the miss of an expired entry
getExpiredUncounted(c, k, t) ==
    IF k \notin DOMAIN c.map
    THEN [cache |-> [c EXCEPT !.stats.misses = @ + 1], ret |-> NullValue]
    ELSE LET n == c.map[k] IN
         IF _isExpired(c.node[n], t)
         THEN LET c1 == _detach(c, n)
              IN  [cache |-> Collect([c1 EXCEPT !.map = MapDelete(c1.map, k)]),
                   ret |-> NullValue]
         ELSE LET c1 == _moveToFront(c, n)
              IN  [cache |-> [c1 EXCEPT !.stats.hits = @ + 1],
                   ret |-> c.node[n].value]

\* get(k) at clock reading t: the cache afterwards and the value returned
get(c, k, t) ==
    IF k \notin DOMAIN c.map
    THEN [cache |-> [c EXCEPT !.stats.misses = @ + 1], ret |-> NullValue]
    ELSE LET n == c.map[k] IN
         IF _isExpired(c.node[n], t)
         THEN LET c1 == _detach(c, n)
              IN  [cache |-> Collect([c1 EXCEPT !.map = MapDelete(c1.map, k),
                                                !.stats.misses = @ + 1]),
                   ret |-> NullValue]
         ELSE LET c1 == _moveToFront(c, n)
              IN  [cache |-> [c1 EXCEPT !.stats.hits = @ + 1],
                   ret |-> c.node[n].value]

\* set(k, value, ttlOverrideMs) at clock reading t
\* a set that leaves the value of an entry it overwrites as it was
setKeepsValue(c, k, value, ttlOverrideMs, t) ==
    LET ttl == IF ttlOverrideMs.given THEN ttlOverrideMs.ms ELSE c.ttlMs
        c2 == IF k \in DOMAIN c.map
              THEN LET existing == c.map[k]
                   IN  _moveToFront([c EXCEPT !.node[existing].expiresAt = t + ttl],
                                    existing)
              ELSE LET n  == NewNode(c)
                       nd == [k |-> k, value |-> value, expiresAt |-> t + ttl,
                              prev |-> Null, next |-> Null]
                       c1 == [c EXCEPT !.node = MapSet(c.node, n, nd),
                                       !.map = MapSet(c.map, k, n)]
                   IN  _evictIfNeeded(_attach(c1, n))
    IN  Collect([c2 EXCEPT !.stats.stores = @ + 1])

\* a set that leaves the expiry of an entry it overwrites as it was
setKeepsExpiry(c, k, value, ttlOverrideMs, t) ==
    LET ttl == IF ttlOverrideMs.given THEN ttlOverrideMs.ms ELSE c.ttlMs
        c2 == IF k \in DOMAIN c.map
              THEN LET existing == c.map[k]
                   IN  _moveToFront([c EXCEPT !.node[existing].value = value],
                                    existing)
              ELSE LET n  == NewNode(c)
                       nd == [k |-> k, value |-> value, expiresAt |-> t + ttl,
                              prev |-> Null, next |-> Null]
                       c1 == [c EXCEPT !.node = MapSet(c.node, n, nd),
                                       !.map = MapSet(c.map, k, n)]
                   IN  _evictIfNeeded(_attach(c1, n))
    IN  Collect([c2 EXCEPT !.stats.stores = @ + 1])

set(c, k, value, ttlOverrideMs, t) ==
    LET ttl == IF ttlOverrideMs.given THEN ttlOverrideMs.ms ELSE c.ttlMs
        c2 == IF k \in DOMAIN c.map
              THEN LET existing == c.map[k]
                   IN  _moveToFront([c EXCEPT !.node[existing].value = value,
                                              !.node[existing].expiresAt = t + ttl],
                                    existing)
              ELSE LET n  == NewNode(c)
                       nd == [k |-> k, value |-> value, expiresAt |-> t + ttl,
                              prev |-> Null, next |-> Null]
                       c1 == [c EXCEPT !.node = MapSet(c.node, n, nd),
                                       !.map = MapSet(c.map, k, n)]
                   IN  _evictIfNeeded(_attach(c1, n))
    IN  Collect([c2 EXCEPT !.stats.stores = @ + 1])

\* a del that answers true also when nothing is stored under the key
delAlwaysTrue(c, k) ==
    IF k \notin DOMAIN c.map
    THEN [cache |-> c, ret |-> TRUE]
    ELSE LET c1 == _detach(c, c.map[k])
         IN  [cache |-> Collect([c1 EXCEPT !.map = MapDelete(c1.map, k)]),
              ret |-> TRUE]

\* del(k): the cache afterwards and the boolean returned
del(c, k) ==
    IF k \notin DOMAIN c.map
    THEN [cache |-> c, ret |-> FALSE]
    ELSE LET c1 == _detach(c, c.map[k])
         IN  [cache |-> Collect([c1 EXCEPT !.map = MapDelete(c1.map, k)]),
              ret |-> TRUE]

\* a clear that leaves the cache as it is
clearNothing(c) == c

clear(c) == Collect([c EXCEPT !.map = <<>>, !.head = Null, !.tail = Null])

snapshot(c) ==
    [size |-> Cardinality(DOMAIN c.map), ttlMs |-> c.ttlMs,
     maxEntries |-> c.maxEntries, hits |-> c.stats.hits,
     misses |-> c.stats.misses, stores |-> c.stats.stores,
     evictions |-> c.stats.evictions]

(***************************************************************************)
(* RateLimiter (nodeproxy/src/rateLimiter.js).  tokens is kept in units of *)
(* 1/MsPerSec token; refillPerSec is the fraction num/den.                 *)
(***************************************************************************)
MsPerSec == 1000

ClientIds == {<<"key", "X">>, <<"ip", "10.0.0.1">>}

RateLimiter(maxTokens, refillPerSec) ==
    [max |-> maxTokens, refill |-> refillPerSec, buckets |-> <<>>,
     stats |-> [limited |-> 0]]

\* Math.floor of a token count
Floor(tokens) == tokens \div MsPerSec

\* _refill(bucket, now): the bucket afterwards
_refill(l, bucket, t) ==
    LET elapsed == t - bucket.last          \* in ms; the code divides by 1000
        add     == (elapsed * l.refill.num) \div l.refill.den
    IN  [tokens |-> Min(l.max * MsPerSec, bucket.tokens + add), last |-> t]

\* tryRemoveToken that admits without taking the tokens out of the bucket
tryRemoveTokenNoTake(l, id, n, t) ==
    LET l1 == IF id \in DOMAIN l.buckets THEN l
              ELSE [l EXCEPT !.buckets =
                       MapSet(l.buckets, id,
                              [tokens |-> l.max * MsPerSec, last |-> t])]
        b  == _refill(l1, l1.buckets[id], t)
    IN  IF b.tokens >= n * MsPerSec
        THEN [limiter |-> [l1 EXCEPT !.buckets[id] = b],
              ret |-> [ok |-> TRUE, remaining |-> Floor(b.tokens)]]
        ELSE [limiter |-> [l1 EXCEPT !.buckets[id] = b,
                                     !.stats.limited = @ + 1],
              ret |-> [ok |-> FALSE, remaining |-> Floor(b.tokens)]]

\* tryRemoveToken that takes the tokens out of the bucket also when it rejects
tryRemoveTokenTakeAlways(l, id, n, t) ==
    LET l1 == IF id \in DOMAIN l.buckets THEN l
              ELSE [l EXCEPT !.buckets =
                       MapSet(l.buckets, id,
                              [tokens |-> l.max * MsPerSec, last |-> t])]
        b  == _refill(l1, l1.buckets[id], t)
        b1 == [b EXCEPT !.tokens = @ - n * MsPerSec]
    IN  IF b.tokens >= n * MsPerSec
        THEN [limiter |-> [l1 EXCEPT !.buckets[id] = b1],
              ret |-> [ok |-> TRUE, remaining |-> Floor(b1.tokens)]]
        ELSE [limiter |-> [l1 EXCEPT !.buckets[id] = b1,
                                     !.stats.limited = @ + 1],
              ret |-> [ok |-> FALSE, remaining |-> Floor(b.tokens)]]

\* tryRemoveToken(id, n) when Date.now() returns t: the limiter afterwards
\* and the object {ok, remaining} returned
tryRemoveToken(l, id, n, t) ==
    LET l1 == IF id \in DOMAIN l.buckets THEN l
              ELSE [l EXCEPT !.buckets =
                       MapSet(l.buckets, id,
                              [tokens |-> l.max * MsPerSec, last |-> t])]
        b  == _refill(l1, l1.buckets[id], t)
    IN  IF b.tokens >= n * MsPerSec
        THEN LET b1 == [b EXCEPT !.tokens = @ - n * MsPerSec]
             IN  [limiter |-> [l1 EXCEPT !.buckets[id] = b1],
                  ret |-> [ok |-> TRUE, remaining |-> Floor(b1.tokens)]]
        ELSE [limiter |-> [l1 EXCEPT !.buckets[id] = b,
                                     !.stats.limited = @ + 1],
              ret |-> [ok |-> FALSE, remaining |-> Floor(b.tokens)]]

\* the Node proxy's variables in the specifications that do not run it
NodeUnused ==
    /\ config = <<>>
    /\ counters = <<>>
    /\ req = <<>>
    /\ upstream = <<>>
    /\ workload = {}

\* the Go proxy's variables in the specifications that do not run it
GoUnused ==
    /\ goNow = 0
    /\ goTicker = 0
    /\ goRateLimiter = <<>>
    /\ goHeap = <<>>
    /\ goReq = <<>>
    /\ goConfig = <<>>
    /\ goCache = <<>>
    /\ goUpstream = <<>>

\* no call of a TTLCache method yet
NoOp == [op |-> "none", k |-> <<>>, ttl |-> 0, t |-> 0, v |-> NullValue,
         stored |-> FALSE]

\* the call op(k, ...) made at clock reading t; ttl is the time to live a set
\* asks for, v the value a set is given, stored whether the key of a set had
\* a node in the map when the call was made
Op(op, k, ttl, t) == [op |-> op, k |-> k, ttl |-> ttl, t |-> t, v |-> NullValue,
                      stored |-> FALSE]

\* key k is touched: it becomes the latest of the keys touched
Touch(seq, k) == <<k>> \o SelectSeq(seq, LAMBDA x : x # k)

\* key k is forgotten by a del
Untouch(seq, k) == SelectSeq(seq, LAMBDA x : x # k)

\* the history variables before any call
HistInit ==
    /\ calls = <<>>
    /\ lastOp = NoOp
    /\ touched = <<>>

(***************************************************************************)
(* The clock.                                                              *)
(***************************************************************************)
Tick ==
    /\ \E d \in ClockSteps : now + d <= MaxTime /\ now' = now + d
    /\ UNCHANGED <<cache, ret, limiter, nodeVars>>
    /\ UNCHANGED goVars
    /\ UNCHANGED histVars

(***************************************************************************)
(* SpecCache: a TTLCache of any capacity 0..MaxEntriesBound driven by      *)
(* arbitrary calls of its methods.                                         *)
(***************************************************************************)
CallCount(c) == c.stats.hits + c.stats.misses + c.stats.stores

InitCache ==
    /\ now = 0
    /\ \E cap \in 0..MaxEntriesBound : cache = TTLCache(1000, cap)
    /\ ret = NullValue
    /\ limiter = RateLimiter(0, [num |-> 0, den |-> 1])
    /\ NodeUnused
    /\ GoUnused
    /\ HistInit

CacheGet ==
    /\ CallCount(cache) < MaxOps
    /\ \E k \in CacheKeys :
          LET r == get(cache, k, now)
          IN  /\ cache' = r.cache /\ ret' = r.ret
              /\ lastOp' = Op("get", k, 0, now)
              /\ touched' = IF r.ret # NullValue THEN Touch(touched, k) ELSE touched
    /\ UNCHANGED <<now, limiter, nodeVars, calls>>
    /\ UNCHANGED goVars

CacheSet ==
    /\ CallCount(cache) < MaxOps
    /\ \E k \in CacheKeys, v \in CacheValues, ttl \in TtlArgs :
          /\ cache' = set(cache, k, v, ttl, now)
          /\ lastOp' = [Op("set", k, IF ttl.given THEN ttl.ms ELSE cache.ttlMs, now)
                           EXCEPT !.v = v, !.stored = (k \in DOMAIN cache.map)]
          /\ touched' = Touch(touched, k)
    /\ ret' = NullValue
    /\ UNCHANGED <<now, limiter, nodeVars, calls>>
    /\ UNCHANGED goVars

CacheDel ==
    /\ \E k \in CacheKeys :
          LET r == del(cache, k)
          IN  /\ cache' = r.cache /\ ret' = r.ret
              /\ lastOp' = Op("del", k, 0, now)
              /\ touched' = Untouch(touched, k)
    /\ UNCHANGED <<now, limiter, nodeVars, calls>>
    /\ UNCHANGED goVars

CacheClear ==
    /\ cache' = clear(cache)
    /\ ret' = NullValue
    /\ lastOp' = Op("clear", <<>>, 0, now)
    /\ touched' = <<>>
    /\ UNCHANGED <<now, limiter, nodeVars, calls>>
    /\ UNCHANGED goVars

NextCache == CacheGet \/ CacheSet \/ CacheDel \/ CacheClear \/ Tick

SpecCache == InitCache /\ [][NextCache]_vars

\* C1: in a TTLCache of any capacity C >= 0 the number of stored entries
\* (the size of the map) is at most C after every set, get, del and clear.
C1_SizeAtMostCapacity == snapshot(cache).size <= cache.maxEntries

\* C1 witness: a set of a new key into a full cache has evicted an entry and
\* the cache is full again.
C1_Witness ==
    /\ cache.stats.evictions > 0
    /\ cache.maxEntries > 0
    /\ snapshot(cache).size = cache.maxEntries

\* the keys of the recency list from node n to the tail
RECURSIVE KeysFrom(_, _)
KeysFrom(c, n) ==
    IF n = Null THEN <<>> ELSE <<c.node[n].k>> \o KeysFrom(c, c.node[n].next)

\* the keys in the order of the recency list, head first
RecencyOrder(c) == KeysFrom(c, c.head)

\* the keys a get at clock reading t would report as present
PresentKeys(c, t) == {k \in DOMAIN c.map : ~_isExpired(c.node[c.map[k]], t)}

\* this step is a call of the TTLCache method op: it is the last call made
\* and the cache, the history or the value returned is not what it was
CacheCall(op) ==
    /\ lastOp'.op = op
    /\ \/ <<cache, lastOp, touched>>' # <<cache, lastOp, touched>>
       \/ lastOp.op = op /\ ret' # ret

\* the first n elements of a sequence, as a set
FirstN(seq, n) == {seq[i] : i \in 1..Min(n, Len(seq))}

\* C15: after a set the keys a get would report as present are exactly the
\* (at most C) most recently touched ones among the unexpired keys: the keys
\* present before the set and the key set (when its TTL has not run out at
\* once), in the order of their last touch.
C15_RetainsMostRecentUnexpired ==
    [][CacheCall("set") =>
         LET k       == lastOp'.k
             unexp   == (PresentKeys(cache, now) \ {k})
                           \cup (IF lastOp'.ttl > 0 THEN {k} ELSE {})
             byTouch == SelectSeq(touched', LAMBDA x : x \in unexp)
         IN  PresentKeys(cache', now) = FirstN(byTouch, cache.maxEntries)
    ]_vars

\* the node stored under key k
NodeOf(c, k) == c.node[c.map[k]]

\* C16: a key set at time t with ttl d (default or override, d = 0
\* included) is stored with the expiry t + d, which no call but a set of the
\* same key changes while the entry is stored; a get of the key returns the
\* value at every time before the expiry, and at or after the expiry it
\* returns null and removes the entry from the map and the recency list.
C16_PresentUntilExpiry ==
    [][/\ CacheCall("set") =>
            (lastOp'.k \in DOMAIN cache'.map =>
                NodeOf(cache', lastOp'.k).expiresAt = lastOp'.t + lastOp'.ttl)
       /\ \A k \in DOMAIN cache.map \cap DOMAIN cache'.map :
            (CacheCall("set") /\ lastOp'.k = k)
               \/ /\ NodeOf(cache', k).expiresAt = NodeOf(cache, k).expiresAt
                  /\ NodeOf(cache', k).value = NodeOf(cache, k).value
       /\ CacheCall("get") =>
            LET k == lastOp'.k
            IN  IF k \notin DOMAIN cache.map
                THEN ret' = NullValue
                ELSE IF now < NodeOf(cache, k).expiresAt
                     THEN ret' = NodeOf(cache, k).value /\ k \in DOMAIN cache'.map
                     ELSE /\ ret' = NullValue
                          /\ k \notin DOMAIN cache'.map
                          /\ k \notin Range(RecencyOrder(cache'))
    ]_vars

\* C16 witness: the one key set, neither deleted nor evicted, has been
\* reported absent by a get at the time the default TTL runs out, and is
\* gone from the map.
C16_Witness ==
    /\ lastOp.op = "get"
    /\ now = cache.ttlMs
    /\ ret = NullValue
    /\ lastOp.k \in Range(touched)
    /\ lastOp.k \notin DOMAIN cache.map
    /\ cache.stats.evictions = 0
    /\ cache.stats.stores = 1
    /\ cache.stats.misses = 1

\* the key touched longest ago among the keys S, all of them in seq
Oldest(seq, S) ==
    seq[CHOOSE i \in 1..Len(seq) :
           seq[i] \in S /\ \A j \in (i + 1)..Len(seq) : seq[j] \notin S]

\* C17: a set of a new key into a full cache evicts exactly one entry, the
\* one whose last touch (set or get hit) is oldest, and a set into a cache
\* that is not full evicts nothing; so after C+1 distinct keys have been set
\* into an empty cache of capacity C >= 1 with no get, the first-inserted key
\* is the one evicted and the other C are stored.
C17_EvictsOldestTouch ==
    /\ [][(CacheCall("set") /\ lastOp'.k \notin DOMAIN cache.map) =>
            LET k      == lastOp'.k
                stored == DOMAIN cache.map \cup {k}
            IN  IF Cardinality(DOMAIN cache.map) >= cache.maxEntries
                THEN /\ cache'.stats.evictions = cache.stats.evictions + 1
                     /\ DOMAIN cache'.map = stored \ {Oldest(touched', stored)}
                ELSE /\ cache'.stats.evictions = cache.stats.evictions
                     /\ DOMAIN cache'.map = stored
       ]_vars
    /\ []((/\ cache.maxEntries >= 1
           /\ cache.stats.hits + cache.stats.misses = 0
           /\ cache.stats.stores = cache.maxEntries + 1
           /\ Len(touched) = cache.maxEntries + 1) =>
             /\ cache.stats.evictions = 1
             /\ touched[Len(touched)] \notin DOMAIN cache.map
             /\ RecencyOrder(cache) = SubSeq(touched, 1, cache.maxEntries))

\* C17 witness: after two sets and a get hit, the set of a third key into
\* the full cache of capacity 2 has evicted the key touched longest ago.
C17_Witness ==
    /\ lastOp.op = "set"
    /\ cache.maxEntries = 2
    /\ cache.stats.hits = 1
    /\ cache.stats.evictions = 1
    /\ cache.stats.stores = 3
    /\ Len(touched) = 3
    /\ DOMAIN cache.map = {touched[1], touched[2]}

\* every key but k is stored or not as before, with the value and expiry it
\* had, and the keys but k are in the recency order they were in
OthersUnchanged(k) ==
    /\ DOMAIN cache'.map \ {k} = DOMAIN cache.map \ {k}
    /\ \A j \in DOMAIN cache.map \ {k} :
          /\ NodeOf(cache', j).value = NodeOf(cache, j).value
          /\ NodeOf(cache', j).expiresAt = NodeOf(cache, j).expiresAt
    /\ SelectSeq(RecencyOrder(cache'), LAMBDA x : x # k)
          = SelectSeq(RecencyOrder(cache), LAMBDA x : x # k)

\* C18: a get of a key that is not stored, or stored but expired, returns
\* null, adds 1 to misses, leaves hits, stores and evictions and every other
\* key's value, expiry and place in the recency order unchanged, and leaves
\* the key absent, so that a repeated get does the same.
C18_AbsentGetIdempotent ==
    [][(CacheCall("get") /\ lastOp'.k \notin PresentKeys(cache, now)) =>
          /\ ret' = NullValue
          /\ cache'.stats = [cache.stats EXCEPT !.misses = @ + 1]
          /\ OthersUnchanged(lastOp'.k)
          /\ lastOp'.k \notin DOMAIN cache'.map
    ]_vars

\* C18 witness: two gets of an expired key stored beside another key have
\* both missed, and the other key is still stored.
C18_Witness ==
    /\ lastOp.op = "get"
    /\ ret = NullValue
    /\ cache.stats.misses = 2
    /\ cache.stats.hits = 0
    /\ cache.stats.stores = 2
    /\ cache.stats.evictions = 0
    /\ Len(touched) = 2
    /\ DOMAIN cache.map = Range(touched) \ {lastOp.k}
    /\ lastOp.k \in Range(touched)

\* C19: del(key) returns true exactly when an entry is stored under the key,
\* an expired one included; afterwards the key is not stored, every other
\* entry and the counters are unchanged, and so a second del of the key
\* returns false.
C19_DelReportsStored ==
    [][CacheCall("del") =>
          /\ ret' = (lastOp'.k \in DOMAIN cache.map)
          /\ lastOp'.k \notin DOMAIN cache'.map
          /\ lastOp'.k \notin Range(RecencyOrder(cache'))
          /\ OthersUnchanged(lastOp'.k)
          /\ cache'.stats = cache.stats
    ]_vars

\* C19 witness: a del has returned true for an entry that had expired and
\* was still stored, beside another entry that stays.
C19_Witness ==
    /\ lastOp.op = "del"
    /\ ret = TRUE
    /\ now = cache.ttlMs
    /\ cache.stats.stores = 2
    /\ cache.stats.evictions = 0
    /\ cache.stats.hits + cache.stats.misses = 0
    /\ Cardinality(DOMAIN cache.map) = 1
    /\ \A k \in DOMAIN cache.map : NodeOf(cache, k).expiresAt = cache.ttlMs

\* the nodes met from node n by following next (forward) or prev, at most
\* fuel of them
RECURSIVE NodesFrom(_, _, _, _)
NodesFrom(c, n, forward, fuel) ==
    IF n = Null \/ n \notin DOMAIN c.node \/ fuel = 0 THEN <<>>
    ELSE <<n>> \o NodesFrom(c, IF forward THEN c.node[n].next ELSE c.node[n].prev,
                            forward, fuel - 1)

Reverse(seq) == [i \in 1..Len(seq) |-> seq[Len(seq) + 1 - i]]

\* C31: after every operation the map and the recency list agree: the nodes
\* reachable from head by next are exactly the nodes in the map, each once
\* and each under its own key; following prev from tail gives the reverse
\* order; head.prev and tail.next are null; head = tail = null exactly when
\* the map is empty; and no node is linked but unmapped.
C31_MapAndListAgree ==
    LET c     == cache
        fuel  == Cardinality(DOMAIN c.map) + 1
        fwd   == NodesFrom(c, c.head, TRUE, fuel)
        bwd   == NodesFrom(c, c.tail, FALSE, fuel)
    IN  /\ Range(fwd) = Range(c.map)
        /\ Len(fwd) = Cardinality(DOMAIN c.map)
        /\ \A k \in DOMAIN c.map : c.map[k] \in DOMAIN c.node /\ c.node[c.map[k]].k = k
        /\ bwd = Reverse(fwd)
        /\ c.head # Null => c.node[c.head].prev = Null
        /\ c.tail # Null => c.node[c.tail].next = Null
        /\ (c.head = Null) = (DOMAIN c.map = {})
        /\ (c.tail = Null) = (DOMAIN c.map = {})
        /\ DOMAIN c.node = Range(c.map)

\* C31 witness: after two inserts, an insert that evicted the oldest entry
\* and a get that moved the tail to the front, the list holds two nodes.
C31_Witness ==
    /\ cache.stats.stores = 3
    /\ cache.stats.evictions = 1
    /\ cache.stats.hits = 1
    /\ lastOp.op = "get"
    /\ Cardinality(DOMAIN cache.map) = 2
    /\ cache.head = cache.map[lastOp.k]
    /\ cache.head # cache.tail

\* C32: a set of a key that has a node in the map, expired or not, overwrites
\* it: the entry holds the new value and the expiry now + ttl and is the
\* most recently used one, the stored keys and every other entry's value,
\* expiry and relative order are as before, nothing is evicted, and stores
\* grows by 1 with the other counters unchanged.
C32_SetOverwrites ==
    [][(CacheCall("set") /\ lastOp'.k \in DOMAIN cache.map) =>
          LET k == lastOp'.k
          IN  /\ DOMAIN cache'.map = DOMAIN cache.map
              /\ NodeOf(cache', k).value = lastOp'.v
              /\ NodeOf(cache', k).expiresAt = now + lastOp'.ttl
              /\ cache'.head = cache'.map[k]
              /\ RecencyOrder(cache')[1] = k
              /\ OthersUnchanged(k)
              /\ cache'.stats = [cache.stats EXCEPT !.stores = @ + 1]
    ]_vars

\* C32 witness: in a full cache of capacity 2 the older entry, expired, has
\* just been overwritten with the other value: it is at the head with the new
\* expiry, the other entry keeps its expiry, and nothing was evicted.
C32_Witness ==
    /\ lastOp.op = "set"
    /\ lastOp.stored
    /\ lastOp.t = cache.ttlMs
    /\ lastOp.ttl = cache.ttlMs
    /\ cache.maxEntries = 2
    /\ Cardinality(DOMAIN cache.map) = 2
    /\ cache.stats.stores = 3
    /\ cache.stats.evictions = 0
    /\ cache.head = cache.map[lastOp.k]
    /\ NodeOf(cache, lastOp.k).value = lastOp.v
    /\ NodeOf(cache, lastOp.k).expiresAt = 2 * cache.ttlMs
    /\ cache.node[cache.tail].expiresAt = cache.ttlMs

(***************************************************************************)
(* SpecLimiter: a RateLimiter of any size 0..MaxTokensBound and any of     *)
(* the refill rates, driven by tryRemoveToken calls; each call reads the   *)
(* wall clock, which may return any reading (the wall clock can be set     *)
(* back between two calls).                                                *)
(***************************************************************************)
Refills == {[num |-> 0, den |-> 1], [num |-> 1, den |-> 2],
            [num |-> 1, den |-> 1], [num |-> 2, den |-> 1]}

ClockReadings == {t \in 0..MaxTime : t % 500 = 0}

InitLimiter ==
    /\ now \in ClockReadings
    /\ cache = TTLCache(1000, 0)
    /\ ret = NullValue
    /\ \E m \in 0..MaxTokensBound, r \in Refills : limiter = RateLimiter(m, r)
    /\ NodeUnused
    /\ GoUnused
    /\ HistInit

\* the client has no bucket yet, or a bucket holding max tokens
IsFull(l, id) ==
    id \in DOMAIN l.buckets => l.buckets[id].tokens = l.max * MsPerSec

LimiterCall ==
    /\ limiter.stats.limited < MaxLimited
    /\ Len(calls) < MaxCalls
    /\ \E id \in ClientIds, n \in 1..2, t \in ClockReadings :
          LET r == tryRemoveToken(limiter, id, n, t)
          IN  /\ now' = t /\ limiter' = r.limiter /\ ret' = r.ret
              /\ calls' = Append(calls, [id |-> id, n |-> n, t |-> t,
                                         full |-> IsFull(limiter, id),
                                         ok |-> r.ret.ok,
                                         remaining |-> r.ret.remaining])
    /\ UNCHANGED <<cache, nodeVars, lastOp, touched>>
    /\ UNCHANGED goVars

NextLimiter == LimiterCall

SpecLimiter == InitLimiter /\ [][NextLimiter]_vars

\* C10: for every client id, after any sequence of tryRemoveToken(id, n)
\* calls with n >= 1 and any sequence of clock readings, the bucket's token
\* count satisfies 0 <= tokens <= maxTokens.
C10_TokensInRange ==
    \A id \in DOMAIN limiter.buckets :
        /\ 0 <= limiter.buckets[id].tokens
        /\ limiter.buckets[id].tokens <= limiter.max * MsPerSec

\* the calls of client id, in the order made
CallsOf(id) == SelectSeq(calls, LAMBDA c : c.id = id)

\* the calls i..j of cs ask for one token each and their clock readings lie
\* within a span shorter than one second
WithinOneSecond(cs, i, j) ==
    /\ \A x \in i..j : cs[x].n = 1
    /\ \A x, y \in i..j : cs[x].t - cs[y].t < MsPerSec

\* C11: with a bucket of size M >= 1 and a refill rate of at most one token
\* per second, when a client whose bucket is new or full makes M+1 requests
\* within a span shorter than one second, the first M are admitted and the
\* (M+1)-th is rejected with remaining = 0.
C11_BurstAdmitsExactlyMax ==
    LET M == limiter.max
    IN  (M >= 1 /\ limiter.refill.num <= limiter.refill.den) =>
          \A id \in ClientIds :
             LET cs == CallsOf(id)
             IN  \A i \in 1..Len(cs) :
                    (i + M <= Len(cs) /\ cs[i].full /\ WithinOneSecond(cs, i, i + M)) =>
                       /\ \A j \in i..(i + M - 1) : cs[j].ok
                       /\ ~cs[i + M].ok
                       /\ cs[i + M].remaining = 0

\* ceil(1/R) seconds, in ms, for the refill rate R = num/den > 0
CeilSecondsPerToken(refill) == ((refill.den + refill.num - 1) \div refill.num) * MsPerSec

\* C12: when a client's full bucket of size M >= 1 with refill rate R > 0 has
\* served M requests at one clock reading t0, every further request of the
\* client before t0 + ceil(1/R) s is rejected, and at t0 + ceil(1/R) s one
\* request is admitted and a second one at that reading is rejected.
C12_RefillAfterCeil ==
    LET M == limiter.max
    IN  (M >= 1 /\ limiter.refill.num > 0) =>
          \A id \in ClientIds :
             LET cs == CallsOf(id)
             IN  \A i \in 1..Len(cs) :
                    LET m   == i + M - 1
                        due == cs[i].t + CeilSecondsPerToken(limiter.refill)
                    IN  (/\ m <= Len(cs)
                         /\ cs[i].full
                         /\ \A x \in i..m : cs[x].n = 1 /\ cs[x].t = cs[i].t /\ cs[x].ok) =>
                           \A j \in (m + 1)..Len(cs) :
                              (\A x \in (m + 1)..(j - 1) : cs[x].t < due) =>
                                 /\ cs[j].t < due => ~cs[j].ok
                                 /\ (cs[j].t = due /\ cs[j].n = 1) =>
                                       /\ cs[j].ok
                                       /\ (j + 1 <= Len(cs) /\ cs[j + 1].t = due) =>
                                             ~cs[j + 1].ok

\* the call made by this step, when the step is a tryRemoveToken call
CallMade == calls'[Len(calls')]

\* the bucket of client id after the refill step of a call at clock reading t
PostRefill(l, id, t) ==
    _refill(l, IF id \in DOMAIN l.buckets THEN l.buckets[id]
               ELSE [tokens |-> l.max * MsPerSec, last |-> t], t)

\* C13: a tryRemoveToken(id, n) call that finds fewer than n tokens after the
\* refill step returns ok = false and remaining = floor(tokens), leaves the
\* tokens at their value after the refill, leaves every other client's
\* bucket as it was and adds exactly 1 to limited; an admitted call leaves
\* limited unchanged.
C13_RejectionTakesNothing ==
    [][Len(calls') = Len(calls) + 1 =>
         LET id   == CallMade.id
             post == PostRefill(limiter, id, CallMade.t)
         IN  /\ post.tokens < CallMade.n * MsPerSec =>
                   /\ ret' = [ok |-> FALSE, remaining |-> Floor(post.tokens)]
                   /\ limiter'.buckets[id].tokens = post.tokens
                   /\ DOMAIN limiter'.buckets = DOMAIN limiter.buckets \cup {id}
                   /\ \A o \in DOMAIN limiter.buckets \ {id} :
                         limiter'.buckets[o] = limiter.buckets[o]
                   /\ limiter'.stats.limited = limiter.stats.limited + 1
             /\ post.tokens >= CallMade.n * MsPerSec =>
                   /\ ret'.ok
                   /\ limiter'.stats.limited = limiter.stats.limited
    ]_vars

\* C13 witness: a call has been rejected with tokens left in the bucket (the
\* client asked for more than it holds) while another client has a bucket.
C13_Witness ==
    /\ Len(calls) > 0
    /\ ~calls[Len(calls)].ok
    /\ limiter.buckets[calls[Len(calls)].id].tokens > 0
    /\ limiter.stats.limited >= 1
    /\ Cardinality(DOMAIN limiter.buckets) = 2

\* C14: for every bucket the stored timestamp of the last refill never
\* decreases over the tryRemoveToken calls, whatever the clock readings.
C14_LastRefillMonotonic ==
    [][\A id \in DOMAIN limiter.buckets :
          limiter'.buckets[id].last >= limiter.buckets[id].last]_vars

(***************************************************************************)
(* utils.js: the helpers of the Node request handler.  A string is a TLA+  *)
(* string; the SHA-256 digests are the real digests of the strings the     *)
(* model draws.                                                            *)
(***************************************************************************)
BodyPlain  == "{\"a\":1}"
BodyStream == "{\"a\":1,\"stream\":true}"
BodyPurgeAll == "{\"key\":\"*\"}"
BodyPurgeOne == "{\"key\":\"POST:/v1/chat:auth:0bca81dbfc356ddc:015abd7f5cc57a2dd94b7590f04ad8084273905ee33ec5cebeae62276a97f862\"}"
BodyPurgeNone == "{}"

\* crypto.createHash('sha256').update(s).digest('hex')
Sha256Hex(s) ==
    CASE s = "Bearer X" -> "0bca81dbfc356ddc0c7eea0ef941ac1b306e3cbfdabb20ccbedd1c88997ecf15"
      [] s = "Bearer Y" -> "8e203ff9042c5dde227c5ef25d77390641c5d5b695687826d0f3f58bd0bd2b6b"
      [] s = "sk-upstream" -> "33f99b5babe29b420d38554d8a357fcaec045802c5dba3cf7d97ada994988ca8"
      [] s = "" -> "e3b0c44298fc1c149afbf4c8996fb92427ae41e4649b934ca495991b7852b855"
      [] s = BodyPlain -> "015abd7f5cc57a2dd94b7590f04ad8084273905ee33ec5cebeae62276a97f862"
      [] s = BodyStream -> "b9e3cf511a583b64284748bb789141f5e98508a32297ae6ea60b37517c58a657"
      [] OTHER -> "d9298a10d1b0735837dc4bd85dac641b0f3cef27a47e5d53a54f2f3f5b2fcffa"

\* hex.slice(0, 16)
Slice16(hex) ==
    CASE hex = "0bca81dbfc356ddc0c7eea0ef941ac1b306e3cbfdabb20ccbedd1c88997ecf15" -> "0bca81dbfc356ddc"
      [] hex = "8e203ff9042c5dde227c5ef25d77390641c5d5b695687826d0f3f58bd0bd2b6b" -> "8e203ff9042c5dde"
      [] hex = "33f99b5babe29b420d38554d8a357fcaec045802c5dba3cf7d97ada994988ca8" -> "33f99b5babe29b42"
      [] hex = "e3b0c44298fc1c149afbf4c8996fb92427ae41e4649b934ca495991b7852b855" -> "e3b0c44298fc1c14"
      [] hex = "015abd7f5cc57a2dd94b7590f04ad8084273905ee33ec5cebeae62276a97f862" -> "015abd7f5cc57a2d"
      [] hex = "b9e3cf511a583b64284748bb789141f5e98508a32297ae6ea60b37517c58a657" -> "b9e3cf511a583b64"
      [] OTHER -> "d9298a10d1b07358"

hashBody(body) == Sha256Hex(body)

hashString(s) == Slice16(Sha256Hex(s))

\* JSON.parse, or null when the text is no JSON
safeJsonParse(text) ==
    CASE text = BodyPlain -> [a |-> 1]
      [] text = BodyStream -> [a |-> 1, stream |-> TRUE]
      [] text = BodyPurgeAll -> [key |-> <<"*">>]
      [] text = BodyPurgeOne ->
            [key |-> <<"POST", ":", "/v1/chat", "", ":", "auth:",
                       "0bca81dbfc356ddc", ":",
                       "015abd7f5cc57a2dd94b7590f04ad8084273905ee33ec5cebeae62276a97f862">>]
      [] text = BodyPurgeNone -> <<>>
      [] OTHER -> NullValue

isLikelyStream(bodyObj) ==
    /\ bodyObj # NullValue
    /\ "stream" \in DOMAIN bodyObj
    /\ bodyObj.stream = TRUE

parseBoolean(s) == s \in {"1", "true", "yes", "on"}

pickClientId(in) ==
    IF in.authorization # ""
    THEN <<"key", hashString(in.authorization)>>
    ELSE <<"ip", IF in.xForwardedFor # "" THEN in.xForwardedFor
                 ELSE IF in.remoteAddress # "" THEN in.remoteAddress
                 ELSE "unknown">>

\* the path and query of the upstream URL
buildUpstreamUrl(path, search) == <<path, search>>

(***************************************************************************)
(* server.js: the request handler.  It runs from one await to the next     *)
(* without interleaving; the awaits are the log hook, readBody, fetch and  *)
(* upstreamResp.arrayBuffer().  req[r].pc is the await invocation r is     *)
(* suspended at.                                                           *)
(***************************************************************************)
Reqs == 1..MaxReqs

AdminToken == "changeme"

Input(method, path, auth, ctype, inval, token, body) ==
    [method |-> method, path |-> path, search |-> "",
     authorization |-> auth, contentType |-> ctype,
     xCacheInvalidate |-> inval, xAdminToken |-> token,
     xForwardedFor |-> "", remoteAddress |-> "10.0.0.1", body |-> body]

V1Path == "/v1/chat"

\* the requests the model draws
PostX        == Input("POST", V1Path, "Bearer X", "application/json", "", "", BodyPlain)
PostY        == Input("POST", V1Path, "Bearer Y", "application/json", "", "", BodyPlain)
PostAnon     == Input("POST", V1Path, "", "application/json", "", "", BodyPlain)
PostXStream  == Input("POST", V1Path, "Bearer X", "application/json", "", "", BodyStream)
PostXStreamText == Input("POST", V1Path, "Bearer X", "text/plain", "", "", BodyStream)
PostXInval   == Input("POST", V1Path, "Bearer X", "application/json", "true", "", BodyPlain)
PostXStreamInval == Input("POST", V1Path, "Bearer X", "application/json", "true", "", BodyStream)
GetX         == Input("GET", V1Path, "Bearer X", "application/json", "", "", "")
GetHealthz   == Input("GET", "/healthz", "", "", "", "", "")
GetMetrics   == Input("GET", "/metrics", "", "", "", "", "")
GetOther     == Input("GET", "/other", "", "", "", "", "")
PurgeBadToken == Input("POST", "/admin/cache/purge", "", "application/json", "", "guess", BodyPurgeAll)
PurgeAll     == Input("POST", "/admin/cache/purge", "", "application/json", "", AdminToken, BodyPurgeAll)
PurgeOne     == Input("POST", "/admin/cache/purge", "", "application/json", "", AdminToken, BodyPurgeOne)
PurgeNone    == Input("POST", "/admin/cache/purge", "", "application/json", "", AdminToken, BodyPurgeNone)

Inputs ==
    {PostX, PostY, PostAnon, PostXStream, PostXStreamText, PostXInval,
     PostXStreamInval, GetX, GetHealthz, GetMetrics, GetOther,
     PurgeBadToken, PurgeAll, PurgeOne, PurgeNone}

\* a run's clients send the requests of one workload, in any number and
\* order, to a proxy configured with the workload's UPSTREAM_API_KEY and
\* CACHE_ONLY_SUCCESS
Workload(inputs, key, onlySuccess) ==
    [inputs |-> inputs, key |-> key, onlySuccess |-> onlySuccess]

Workloads ==
    {Workload({PostX, PostY}, "", TRUE),
     Workload({PostXStream, PostXStreamText, PostXStreamInval}, "", TRUE),
     Workload({PostX, PostXInval}, "", TRUE),
     Workload({PostAnon, GetX}, "sk-upstream", FALSE),
     Workload({PostX, PurgeBadToken, PurgeAll, PurgeOne, PurgeNone}, "", TRUE),
     Workload({PostX, GetHealthz, GetMetrics, GetOther}, "", FALSE)}

NoInput == Input("", "", "", "", "", "", "")

NoResponse == [status |-> 0, headers |-> <<>>, body |-> "", ended |-> FALSE]

NoFetchResult == [status |-> 0, headers |-> <<>>, body |-> ""]

IdleReq ==
    [pc |-> "idle", in |-> NoInput, rl |-> NullValue,
     bypass |-> FALSE, cacheInvalidate |-> FALSE, cacheKey |-> <<>>,
     hit |-> NullValue, deadline |-> 0, timer |-> FALSE,
     upstreamResp |-> NoFetchResult, e |-> "", res |-> NoResponse]

\* res.setHeader(k, v)
SetHeader(res, k, v) == [res EXCEPT !.headers = MapSet(@, k, v)]

\* a loop over the headers that sets none of them
SetHeadersNone(res, headers) == res

\* for (const [k, v] of Object.entries(headers)) res.setHeader(k, v)
SetHeaders(res, headers) ==
    [res EXCEPT !.headers =
        [k \in DOMAIN res.headers \cup DOMAIN headers |->
            IF k \in DOMAIN headers THEN headers[k] ELSE res.headers[k]]]

\* res.getHeader('x-cache') || 'miss'
GetXCacheOrMiss(res) ==
    IF "x-cache" \in DOMAIN res.headers THEN res.headers["x-cache"] ELSE "miss"

\* done(status, body): the response is written and ended
End(res, status, body) == [res EXCEPT !.status = status, !.body = body, !.ended = TRUE]

\* done(status, body) with an object body: sent as JSON
EndJson(res, status, body) ==
    End(SetHeader(res, "content-type", "application/json; charset=utf-8"), status, body)

\* an auth component that is the same for every credential
authHashNone(in, cfg) == <<"auth:none">>

\* the auth component of the cache key
authHash(in, cfg) ==
    IF in.authorization # "" THEN <<"auth:", hashString(in.authorization)>>
    ELSE IF cfg.UPSTREAM_API_KEY # "" THEN <<"auth:", hashString(cfg.UPSTREAM_API_KEY)>>
    ELSE <<"auth:none">>

bodyKey(in) == IF in.method = "GET" THEN <<>> ELSE <<":", hashBody(in.body)>>

\* `${req.method}:${path}${url.search}:${authHash}${bodyKey}`, as the sequence
\* of the strings joined
cacheKey(in, cfg) ==
    <<in.method, ":", in.path, in.search, ":">> \o authHash(in, cfg) \o bodyKey(in)

isJson(in) == in.contentType \in {"application/json", "application/json; charset=utf-8"}

cacheInvalidate(in) == parseBoolean(in.xCacheInvalidate)

\* a bypass decision that is never taken
bypassNever(in) == FALSE

bypass(in) ==
    \/ cacheInvalidate(in)
    \/ LET parsed == IF isJson(in) THEN safeJsonParse(in.body) ELSE NullValue
       IN  parsed # NullValue /\ isLikelyStream(parsed)

\* the Authorization header of the upstream request ("" when none is set)
upstreamAuth(in, cfg) ==
    IF cfg.UPSTREAM_API_KEY # "" THEN "Bearer sk-upstream"
    ELSE in.authorization

\* the arguments of fetch
fetchCall(in, cfg) ==
    [method |-> in.method, url |-> buildUpstreamUrl(in.path, in.search),
     authorization |-> upstreamAuth(in, cfg),
     body |-> IF in.method \in {"GET", "HEAD"} THEN "" ELSE in.body]

\* the headers of the upstream's responses
UpstreamHeaders ==
    [h \in {"content-type", "connection"} |->
        IF h = "connection" THEN "keep-alive" ELSE "application/json"]

\* respHeaders: the upstream's headers without the hop-by-hop ones, plus x-cache
respHeaders(headers, res) ==
    MapSet([h \in DOMAIN headers \ {"transfer-encoding", "connection"} |-> headers[h]],
           "x-cache", GetXCacheOrMiss(res))

isOk(status) == status >= 200 /\ status < 300

\* shouldCache without the test of bypass
shouldCacheBypassed(rq, cfg) ==
    /\ (~cfg.CACHE_ONLY_SUCCESS \/ isOk(rq.upstreamResp.status))
    /\ rq.in.method = "POST"

\* shouldCache without the test of the method
shouldCacheAnyMethod(rq, cfg) ==
    /\ ~rq.bypass
    /\ (~cfg.CACHE_ONLY_SUCCESS \/ isOk(rq.upstreamResp.status))

\* const shouldCache = !bypass && (!CACHE_ONLY_SUCCESS || isOk) && method === 'POST'
shouldCache(rq, cfg) ==
    /\ ~rq.bypass
    /\ (~cfg.CACHE_ONLY_SUCCESS \/ isOk(rq.upstreamResp.status))
    /\ rq.in.method = "POST"

\* a 429 without the retry-after header
RateLimitedNoHint(res) == EndJson(res, 429, "rate_limited")

\* done(429, { error: 'rate_limited' }, { 'retry-after': '1' })
RateLimited(res) == EndJson(SetHeader(res, "retry-after", "1"), 429, "rate_limited")

\* done(status, body, headers): the response ends and in_flight goes down
done(r, status, body, pc) ==
    /\ req' = [req EXCEPT ![r].res = EndJson(@, status, body), ![r].pc = pc]
    /\ counters' = [counters EXCEPT !.in_flight = @ - 1]

\* a request arrives: the handler runs up to the log hook's await
Arrive(r) ==
    /\ req[r].pc = "idle"
    /\ \A j \in Reqs : j < r => req[j].pc # "idle"
    /\ Cardinality({j \in Reqs : req[j].pc \notin {"idle", "done"}}) < MaxInFlight
    /\ \E in \in workload : req' = [req EXCEPT ![r].pc = "log", ![r].in = in]
    /\ counters' = [counters EXCEPT !.total_requests = @ + 1, !.in_flight = @ + 1]
    /\ UNCHANGED <<now, cache, ret, limiter, config, upstream, workload>>
    /\ UNCHANGED goVars
    /\ UNCHANGED histVars

\* GET /healthz
Healthz(r) ==
    /\ req[r].pc = "log"
    /\ req[r].in.path = "/healthz"
    /\ done(r, 200, "status-ok", "done")
    /\ UNCHANGED <<now, cache, ret, limiter, config, upstream, workload>>
    /\ UNCHANGED goVars
    /\ UNCHANGED histVars

\* GET /metrics
Metrics(r) ==
    /\ req[r].pc = "log"
    /\ req[r].in.path = "/metrics"
    /\ req' = [req EXCEPT ![r].res =
                  End(SetHeader(@, "content-type", "text/plain; charset=utf-8"),
                      200, "metrics"),
                          ![r].pc = "done"]
    /\ counters' = [counters EXCEPT !.in_flight = @ - 1]
    /\ UNCHANGED <<now, cache, ret, limiter, config, upstream, workload>>
    /\ UNCHANGED goVars
    /\ UNCHANGED histVars

IsAdminPurge(in) == in.path = "/admin/cache/purge" /\ in.method = "POST"

\* POST /admin/cache/purge up to the await of readBody
AdminAuth(r) ==
    /\ req[r].pc = "log"
    /\ IsAdminPurge(req[r].in)
    /\ LET token == req[r].in.xAdminToken IN
       IF token = "" \/ token # config.ADMIN_TOKEN
       THEN done(r, 401, "unauthorized", "done")
       ELSE /\ req' = [req EXCEPT ![r].pc = "adminBody"]
            /\ UNCHANGED counters
    /\ UNCHANGED <<now, cache, ret, limiter, config, upstream, workload>>
    /\ UNCHANGED goVars
    /\ UNCHANGED histVars

\* POST /admin/cache/purge after the body has been read
AdminPurge(r) ==
    /\ req[r].pc = "adminBody"
    /\ LET parsed   == safeJsonParse(req[r].in.body)
           adminObj == IF parsed = NullValue THEN <<>> ELSE parsed
       IN  IF "key" \in DOMAIN adminObj /\ adminObj.key = <<"*">>
           THEN /\ cache' = clear(cache)
                /\ done(r, 200, "cleared", "done")
           ELSE IF "key" \in DOMAIN adminObj
           THEN LET d == del(cache, adminObj.key)
                IN  /\ cache' = d.cache
                    /\ done(r, 200, IF d.ret THEN "deleted-true" ELSE "deleted-false",
                            "done")
           ELSE /\ done(r, 400, "bad_request", "done")
                /\ UNCHANGED cache
    /\ UNCHANGED <<now, ret, limiter, config, upstream, workload>>
    /\ UNCHANGED goVars
    /\ UNCHANGED histVars

IsV1(in) == in.path \in {V1Path}

\* any other path that is not under /v1/
NotFound(r) ==
    /\ req[r].pc = "log"
    /\ req[r].in.path \notin {"/healthz", "/metrics"}
    /\ ~IsAdminPurge(req[r].in)
    /\ ~IsV1(req[r].in)
    /\ done(r, 404, "not_found", "done")
    /\ UNCHANGED <<now, cache, ret, limiter, config, upstream, workload>>
    /\ UNCHANGED goVars
    /\ UNCHANGED histVars

\* a /v1/ request: the rate limit, up to the 429 or the await of readBody
RateLimit(r) ==
    /\ req[r].pc = "log"
    /\ IsV1(req[r].in)
    /\ LET clientId == pickClientId(req[r].in)
           t  == tryRemoveToken(limiter, clientId, 1, now)
           rs == SetHeader(req[r].res, "x-rate-remaining", t.ret.remaining)
       IN  /\ limiter' = t.limiter
           /\ IF ~t.ret.ok
              THEN /\ req' = [req EXCEPT
                                ![r].rl = t.ret, ![r].pc = "done",
                                ![r].res = RateLimited(rs)]
                   /\ counters' = [counters EXCEPT !.rate_limited = @ + 1,
                                                   !.in_flight = @ - 1]
              ELSE /\ req' = [req EXCEPT ![r].rl = t.ret,
                                         ![r].res = rs, ![r].pc = "body"]
                   /\ UNCHANGED counters
    /\ UNCHANGED <<now, cache, ret, config, upstream, workload>>
    /\ UNCHANGED goVars
    /\ UNCHANGED histVars

\* after readBody: the bypass decision, the cache lookup, and either the
\* answer from the cache or the start of the upstream fetch
Lookup(r) ==
    /\ req[r].pc = "body"
    /\ LET in  == req[r].in
           key == cacheKey(in, config)
           byp == bypass(in)
           inv == cacheInvalidate(in)
           rq0 == [req[r] EXCEPT !.bypass = byp, !.cacheInvalidate = inv,
                                 !.cacheKey = key]
           fetching(rq) == [rq EXCEPT !.deadline = now + config.UPSTREAM_TIMEOUT_MS,
                                      !.timer = TRUE, !.pc = "fetch"]
       IN  IF byp
           THEN /\ counters' = [counters EXCEPT !.cache_bypass = @ + 1]
                /\ req' = [req EXCEPT ![r] =
                      fetching([rq0 EXCEPT !.res =
                          SetHeader(@, "x-cache",
                                    IF inv THEN "bypass-invalidate" ELSE "bypass")])]
                /\ upstream' = [upstream EXCEPT ![r] = Append(@, fetchCall(in, config))]
                /\ UNCHANGED cache
           ELSE LET g == get(cache, key, now) IN
                /\ cache' = g.cache
                /\ IF g.ret # NullValue
                   THEN /\ counters' = [counters EXCEPT !.cache_hits = @ + 1,
                                                        !.in_flight = @ - 1]
                        /\ req' = [req EXCEPT ![r] =
                              [rq0 EXCEPT !.hit = g.ret, !.pc = "done",
                                  !.res = End(SetHeaders(SetHeader(@, "x-cache", "hit"),
                                                         g.ret.headers),
                                              g.ret.status, g.ret.body)]]
                        /\ UNCHANGED upstream
                   ELSE /\ counters' = [counters EXCEPT !.cache_misses = @ + 1]
                        /\ req' = [req EXCEPT ![r] =
                              fetching([rq0 EXCEPT !.res =
                                           SetHeader(@, "x-cache", "miss")])]
                        /\ upstream' = [upstream EXCEPT
                                          ![r] = Append(@, fetchCall(in, config))]
    /\ UNCHANGED <<now, ret, limiter, config, workload>>
    /\ UNCHANGED goVars
    /\ UNCHANGED histVars

UpstreamStatuses == {200, 500}

\* fetch resolves with the upstream's response head; the timer is cleared and
\* the handler awaits the response body
FetchResolve(r) ==
    /\ req[r].pc = "fetch"
    /\ now <= req[r].deadline
    /\ \E status \in UpstreamStatuses :
          req' = [req EXCEPT ![r].upstreamResp =
                                [status |-> status, headers |-> UpstreamHeaders,
                                 body |-> ToString(r)],
                             ![r].timer = FALSE, ![r].deadline = 0,
                             ![r].pc = "respBody"]
    /\ UNCHANGED <<now, cache, ret, limiter, config, counters, upstream, workload>>
    /\ UNCHANGED goVars
    /\ UNCHANGED histVars

\* a catch of the fetch that answers 502 and then goes on with the response
\* the upstream produces later
fetchCatchContinue(r, e) ==
    /\ req' = [req EXCEPT ![r].e = e, ![r].timer = FALSE, ![r].deadline = 0,
                          ![r].pc = "respBody",
                          ![r].upstreamResp = [status |-> 200, headers |-> UpstreamHeaders,
                                               body |-> ToString(r)],
                          ![r].res = EndJson(@, 502, "bad_gateway")]
    /\ counters' = [counters EXCEPT !.upstream_errors = @ + 1, !.in_flight = @ - 1]

\* the catch of the fetch: upstream_errors++, 502
fetchCatch(r, e) ==
    /\ req' = [req EXCEPT ![r].e = e, ![r].timer = FALSE, ![r].deadline = 0,
                          ![r].pc = "done",
                          ![r].res = EndJson(@, 502, "bad_gateway")]
    /\ counters' = [counters EXCEPT !.upstream_errors = @ + 1, !.in_flight = @ - 1]

\* fetch rejects with a network error
FetchError(r) ==
    /\ req[r].pc = "fetch"
    /\ fetchCatch(r, "network_error")
    /\ UNCHANGED <<now, cache, ret, limiter, config, upstream, workload>>
    /\ UNCHANGED goVars
    /\ UNCHANGED histVars

\* the timer fires: controller.abort, and fetch rejects
FetchTimeout(r) ==
    /\ req[r].pc = "fetch"
    /\ req[r].timer
    /\ now >= req[r].deadline
    /\ fetchCatch(r, "upstream_timeout")
    /\ UNCHANGED <<now, cache, ret, limiter, config, upstream, workload>>
    /\ UNCHANGED goVars
    /\ UNCHANGED histVars

\* the response body has been read: store if cacheable, then answer
Respond(r) ==
    /\ req[r].pc = "respBody"
    /\ LET rq == req[r]
           up == rq.upstreamResp
           hs == respHeaders(up.headers, rq.res)
           value == [status |-> up.status, headers |-> hs, body |-> up.body]
       IN  /\ IF shouldCache(rq, config)
              THEN /\ cache' = set(cache, rq.cacheKey, value,
                                   [given |-> FALSE, ms |-> 0], now)
                   /\ counters' = [counters EXCEPT !.cache_stores = @ + 1]
              ELSE UNCHANGED <<cache, counters>>
           /\ req' = [req EXCEPT ![r].pc = "done",
                                 ![r].res = End(SetHeaders(@, hs), up.status, up.body)]
    /\ UNCHANGED <<now, ret, limiter, config, upstream, workload>>
    /\ UNCHANGED goVars
    /\ UNCHANGED histVars

\* reading the response body fails: the handler's outer catch, 500
BodyError(r) ==
    /\ req[r].pc = "respBody"
    /\ req' = [req EXCEPT ![r].e = "body_error", ![r].pc = "done",
                  ![r].res = End(SetHeader(@, "content-type",
                                           "application/json; charset=utf-8"),
                                 500, "internal_error")]
    /\ counters' = [counters EXCEPT !.in_flight = @ - 1, !.upstream_errors = @ + 1]
    /\ UNCHANGED <<now, cache, ret, limiter, config, upstream, workload>>
    /\ UNCHANGED goVars
    /\ UNCHANGED histVars

(***************************************************************************)
(* SpecNode: the Node proxy serving MaxReqs requests.                      *)
(***************************************************************************)
Config(key, onlySuccess) ==
    [UPSTREAM_API_KEY |-> key, UPSTREAM_TIMEOUT_MS |-> 1000,
     RATE_LIMIT_TOKENS |-> 2, RATE_LIMIT_REFILL_PER_SEC |-> [num |-> 1, den |-> 1],
     CACHE_TTL_MS |-> 1000, CACHE_MAX_ENTRIES |-> 1,
     CACHE_ONLY_SUCCESS |-> onlySuccess, ADMIN_TOKEN |-> AdminToken]

InitNode ==
    /\ now = 0
    /\ \E w \in Workloads :
          /\ workload = w.inputs
          /\ config = Config(w.key, w.onlySuccess)
    /\ cache = TTLCache(config.CACHE_TTL_MS, config.CACHE_MAX_ENTRIES)
    /\ limiter = RateLimiter(config.RATE_LIMIT_TOKENS, config.RATE_LIMIT_REFILL_PER_SEC)
    /\ ret = NullValue
    /\ counters = [total_requests |-> 0, cache_hits |-> 0, cache_misses |-> 0,
                   cache_bypass |-> 0, cache_stores |-> 0, rate_limited |-> 0,
                   upstream_errors |-> 0, in_flight |-> 0]
    /\ req = [r \in Reqs |-> IdleReq]
    /\ upstream = [r \in Reqs |-> <<>>]
    /\ GoUnused
    /\ HistInit

NextNode ==
    \/ Tick
    \/ \E r \in Reqs :
          \/ Arrive(r)
          \/ Healthz(r)
          \/ Metrics(r)
          \/ AdminAuth(r)
          \/ AdminPurge(r)
          \/ NotFound(r)
          \/ RateLimit(r)
          \/ Lookup(r)
          \/ FetchResolve(r)
          \/ FetchError(r)
          \/ FetchTimeout(r)
          \/ Respond(r)
          \/ BodyError(r)

SpecNode == InitNode /\ [][NextNode]_vars

\* SpecNode with the scheduling the runtime gives: the clock advances and an
\* armed timer whose deadline has come fires
SpecNodeFair ==
    /\ SpecNode
    /\ WF_vars(Tick)
    /\ \A r \in Reqs : WF_vars(FetchTimeout(r))

(***************************************************************************)
(* SpecKey: the derivation of the cache key and of the upstream request,   *)
(* applied to pairs of requests drawn from methods, paths, queries,        *)
(* credentials and bodies, with and without a configured UPSTREAM_API_KEY. *)
(* A path is a URL pathname (it holds no '?'), a query is empty or starts  *)
(* with '?'; both may hold ':' and the text of an auth component.          *)
(***************************************************************************)
KeyInputs ==
    {[PostX EXCEPT !.method = m, !.path = p, !.search = s,
                   !.authorization = a, !.body = b] :
        m \in {"GET", "POST"},
        p \in {"/v1/chat", "/v1/chat:auth:none"},
        s \in {"", "?a=1", "?a=1:auth:none"},
        a \in {"", "Bearer X", "Bearer Y", "sk-upstream"},
        b \in {BodyPlain, BodyStream}}

KeyReqs == {1, 2}

\* the template literal of the cache key: the pieces joined into one string
RECURSIVE Join(_)
Join(pieces) == IF pieces = <<>> THEN "" ELSE Head(pieces) \o Join(Tail(pieces))

\* lines 152-155 and 175-190 of the handler applied to one request: the
\* cache key it derives and the request it sends upstream
DeriveKey(r) ==
    /\ req[r].pc = "idle"
    /\ \A j \in KeyReqs : j < r => req[j].pc # "idle"
    /\ \E in \in KeyInputs :
          /\ req' = [req EXCEPT ![r] = [IdleReq EXCEPT !.pc = "keyed", !.in = in,
                                           !.cacheKey = cacheKey(in, config)]]
          /\ upstream' = [upstream EXCEPT ![r] = <<fetchCall(in, config)>>]
    /\ UNCHANGED <<now, cache, ret, limiter, config, counters, workload>>
    /\ UNCHANGED goVars
    /\ UNCHANGED histVars

InitKey ==
    /\ now = 0
    /\ workload = {}
    /\ \E key \in {"", "sk-upstream"} : config = Config(key, TRUE)
    /\ cache = TTLCache(config.CACHE_TTL_MS, config.CACHE_MAX_ENTRIES)
    /\ limiter = RateLimiter(config.RATE_LIMIT_TOKENS, config.RATE_LIMIT_REFILL_PER_SEC)
    /\ ret = NullValue
    /\ counters = [total_requests |-> 0, cache_hits |-> 0, cache_misses |-> 0,
                   cache_bypass |-> 0, cache_stores |-> 0, rate_limited |-> 0,
                   upstream_errors |-> 0, in_flight |-> 0]
    /\ req = [r \in Reqs |-> IdleReq]
    /\ upstream = [r \in Reqs |-> <<>>]
    /\ GoUnused
    /\ HistInit

NextKey == \E r \in KeyReqs : DeriveKey(r)

SpecKey == InitKey /\ [][NextKey]_vars

(***************************************************************************)
(* goproxy/internal/middleware/ratelimit.go: the Go proxy's middleware     *)
(* that keeps one rate.Limiter per client key.                             *)
(***************************************************************************)
\* seconds per minute: rate = requestsPerMinute / 60.0; token amounts are
\* integers in 1/60 of a token, so that one second refills requestsPerMinute
SecPerMin == 60

\* time.Minute * 5, in seconds
CleanupSec == 300

GoClockSteps == {150}

GoKeys == {"10.0.0.1", "10.0.0.2"}

\* NewRateLimiter(requestsPerMinute), without the goroutine it starts
NewRateLimiter(requestsPerMinute) ==
    [limiters |-> <<>>,
     rate     |-> requestsPerMinute,
     burst    |-> requestsPerMinute,
     cleanup  |-> CleanupSec]

\* rate.NewLimiter(r, b): the bucket of a new limiter is full at its first use
NewLimiter(r, b, t) == [limit |-> r, burst |-> b, tokens |-> b * SecPerMin, last |-> t]

\* limiter.Allow(): refill by the elapsed time up to burst, take one token if
\* there is one
Allow(lim, t) ==
    LET elapsed == IF t > lim.last THEN t - lim.last ELSE 0
        tokens  == Min(lim.burst * SecPerMin, lim.tokens + elapsed * lim.limit)
    IN  IF tokens >= SecPerMin
        THEN [lim |-> [lim EXCEPT !.tokens = tokens - SecPerMin, !.last = t], ok |-> TRUE]
        ELSE [lim |-> [lim EXCEPT !.tokens = tokens, !.last = t], ok |-> FALSE]

\* the limiters map after cleanupRoutine's assignment: make(map[string]*rate.Limiter)
CleanedLimiters(rl, heap, t) == <<>>

GoReqs == 1..MaxReqs

GoIdle == [pc |-> "idle", key |-> "", limiter |-> Null, status |-> 0, at |-> 0]

\* the middleware is entered for a request of client key k
GoArrive(r) ==
    /\ goReq[r].pc = "idle"
    /\ \A q \in GoReqs : q < r => goReq[q].pc # "idle"
    /\ \E k \in GoKeys :
          goReq' = [goReq EXCEPT ![r] = [@ EXCEPT !.pc = "getLimiter", !.key = k]]
    /\ UNCHANGED <<goNow, goTicker, goRateLimiter, goHeap>>
    /\ UNCHANGED goProxyVars
    /\ UNCHANGED <<now, cache, ret, limiter, nodeVars>>
    /\ UNCHANGED histVars

\* a getLimiter that makes a new limiter without looking into the map
getLimiterAlwaysNew(r) ==
    /\ goReq[r].pc = "getLimiter"
    /\ LET key  == goReq[r].key
           addr == Len(goHeap) + 1
       IN  /\ goHeap' = Append(goHeap,
                            NewLimiter(goRateLimiter.rate, goRateLimiter.burst, goNow))
           /\ goRateLimiter' = [goRateLimiter EXCEPT
                                  !.limiters = MapSet(@, key, addr)]
           /\ goReq' = [goReq EXCEPT ![r] = [@ EXCEPT !.pc = "allow", !.limiter = addr]]
    /\ UNCHANGED <<goNow, goTicker>>
    /\ UNCHANGED goProxyVars
    /\ UNCHANGED <<now, cache, ret, limiter, nodeVars>>
    /\ UNCHANGED histVars

\* rl.getLimiter(key), under the mutex
getLimiter(r) ==
    /\ goReq[r].pc = "getLimiter"
    /\ LET key    == goReq[r].key
           exists == key \in DOMAIN goRateLimiter.limiters
           addr   == Len(goHeap) + 1
       IN  IF exists
           THEN /\ goReq' = [goReq EXCEPT ![r] = [@ EXCEPT !.pc = "allow",
                                   !.limiter = goRateLimiter.limiters[key]]]
                /\ UNCHANGED <<goRateLimiter, goHeap>>
           ELSE /\ goHeap' = Append(goHeap,
                                 NewLimiter(goRateLimiter.rate, goRateLimiter.burst, goNow))
                /\ goRateLimiter' = [goRateLimiter EXCEPT
                                       !.limiters = MapSet(@, key, addr)]
                /\ goReq' = [goReq EXCEPT ![r] = [@ EXCEPT !.pc = "allow", !.limiter = addr]]
    /\ UNCHANGED <<goNow, goTicker>>
    /\ UNCHANGED goProxyVars
    /\ UNCHANGED <<now, cache, ret, limiter, nodeVars>>
    /\ UNCHANGED histVars

\* if !limiter.Allow() { 429; Abort } else c.Next()
GoMiddleware(r) ==
    /\ goReq[r].pc = "allow"
    /\ LET a == Allow(goHeap[goReq[r].limiter], goNow)
       IN  /\ goHeap' = [goHeap EXCEPT ![goReq[r].limiter] = a.lim]
           /\ goReq' = [goReq EXCEPT ![r] = [@ EXCEPT
                          !.pc = IF a.ok THEN "next" ELSE "aborted",
                          !.status = IF a.ok THEN 0 ELSE 429,
                          !.at = goNow]]
    /\ UNCHANGED <<goNow, goTicker, goRateLimiter>>
    /\ UNCHANGED goProxyVars
    /\ UNCHANGED <<now, cache, ret, limiter, nodeVars>>
    /\ UNCHANGED histVars

\* case <-ticker.C of cleanupRoutine
cleanupRoutine ==
    /\ goNow >= goTicker
    /\ goRateLimiter' = [goRateLimiter EXCEPT
                           !.limiters = CleanedLimiters(goRateLimiter, goHeap, goNow)]
    /\ goTicker' = goTicker + goRateLimiter.cleanup
    /\ UNCHANGED <<goNow, goHeap, goReq>>
    /\ UNCHANGED goProxyVars
    /\ UNCHANGED <<now, cache, ret, limiter, nodeVars>>
    /\ UNCHANGED histVars

GoTick ==
    /\ \E d \in GoClockSteps :
          /\ goNow + d <= MaxGoTime
          /\ goNow' = goNow + d
    /\ UNCHANGED <<goTicker, goRateLimiter, goHeap, goReq>>
    /\ UNCHANGED goProxyVars
    /\ UNCHANGED <<now, cache, ret, limiter, nodeVars>>
    /\ UNCHANGED histVars

InitGo ==
    /\ now = 0
    /\ cache = TTLCache(0, 0)
    /\ ret = NullValue
    /\ limiter = RateLimiter(0, [num |-> 0, den |-> 1])
    /\ NodeUnused
    /\ goNow = 0
    /\ goTicker = CleanupSec
    /\ \E rpm \in 1..MaxTokensBound : goRateLimiter = NewRateLimiter(rpm)
    /\ goHeap = <<>>
    /\ goReq = [r \in GoReqs |-> GoIdle]
    /\ goConfig = <<>>
    /\ goCache = <<>>
    /\ goUpstream = <<>>
    /\ HistInit

NextGo ==
    \/ GoTick
    \/ cleanupRoutine
    \/ \E r \in GoReqs : GoArrive(r) \/ getLimiter(r) \/ GoMiddleware(r)

SpecGo == InitGo /\ [][NextGo]_vars

(***************************************************************************)
(* goproxy/internal/server/server.go, goproxyai/internal/proxy/client.go:  *)
(* the Go proxy's handler for /v1 and its response cache.  The cache keeps *)
(* its items in a go-cache store: an item set with a ttl expires at        *)
(* now + ttl, Get reports an item until the clock has passed its           *)
(* expiration, and a janitor deletes the expired items every               *)
(* cleanupInterval.  The handler runs for the requests that the rate-limit *)
(* middleware let through.                                                 *)
(***************************************************************************)
GoInput(method, param, query, body) ==
    [method |-> method, param |-> param, query |-> query,
     headers |-> [h \in {"Authorization", "X-Request-Id"} |->
                     IF h = "Authorization" THEN "Bearer X" ELSE "1"],
     body |-> body]

\* the requests a run's clients send to the Go proxy, and the statuses the
\* upstream answers them with
GoWorkloads ==
    {[inputs |-> {GoInput("GET", "/models", "", ""),
                  GoInput("GET", "/models", "?limit=1", "")},
      statuses |-> {200, 500}],
     [inputs |-> {GoInput("POST", "/chat/completions", "", BodyPlain),
                  GoInput("POST", "/completions", "", BodyPlain),
                  GoInput("POST", "/embeddings", "", BodyPlain)},
      statuses |-> {200, 201}],
     [inputs |-> {GoInput("POST", "/chat/completions", "", BodyPlain),
                  GoInput("POST", "/images/generations", "", BodyPlain),
                  GoInput("PUT", "/files/f1", "", BodyPlain)},
      statuses |-> {201, 400, 500}],
     [inputs |-> {GoInput("GET", "/files/f1", "", ""),
                  GoInput("DELETE", "/files/f1", "", ""),
                  GoInput("PATCH", "/files/f1", "", BodyPlain)},
      statuses |-> {200, 401}]}

\* the size of an upstream response body, in MB
RespSizesMB == {1}

\* path := "/v1" + c.Param("path"); if path == "/v1" { path = "/v1/" }
GoPath(param) == IF param = "" THEN "/v1/" ELSE "/v1" \o param

\* cache.New(ttl, maxSizeMB), at clock reading t: the store and the ttl
CacheNew(ttl, maxSizeMB, t) ==
    LET cleanupInterval == IF ttl \div 2 < SecPerMin THEN SecPerMin ELSE ttl \div 2
    IN  [store |-> [items |-> <<>>, interval |-> cleanupInterval,
                    janitorAt |-> t + cleanupInterval],
         ttl |-> ttl]

filterCacheableHeaders(headers) ==
    [h \in DOMAIN headers \cap {"Authorization", "Content-Type", "Accept",
                                "User-Agent", "X-OpenAI-Organization"} |-> headers[h]]

\* the SHA-256 of the JSON of keyData, as the data it is computed from (the
\* JSON encoding of the drawn methods, paths, headers and bodies is
\* one-to-one)
generateKey(method, path, headers, body) ==
    [Method |-> method, Path |-> path,
     Headers |-> filterCacheableHeaders(headers), Body |-> body]

isCacheable(method, path) ==
    \/ method = "GET"
    \/ /\ method = "POST"
       /\ path \in {"/v1/chat/completions", "/v1/completions", "/v1/embeddings"}

\* a test of the status that lets every response through
isCacheableResponseAny(statusCode) == TRUE

isCacheableResponse(statusCode) == statusCode \in {200, 201, 400, 401}

\* c.store.Get(key) of go-cache at clock reading t
StoreGet(store, key, t) ==
    IF key \in DOMAIN store.items /\ ~(t > store.items[key].Expiration)
    THEN [item |-> store.items[key].Object, found |-> TRUE]
    ELSE [item |-> NullValue, found |-> FALSE]

\* Cache.Get(method, path, headers, body)
GoCacheGet(c, method, path, headers, body, t) ==
    IF ~isCacheable(method, path)
    THEN [entry |-> NullValue, found |-> FALSE]
    ELSE LET g == StoreGet(c.store, generateKey(method, path, headers, body), t)
         IN  [entry |-> g.item, found |-> g.found]

\* Cache.Set(method, path, headers, body, response)
GoCacheSet(c, method, path, headers, body, response, t) ==
    IF ~isCacheable(method, path) \/ ~isCacheableResponse(response.StatusCode)
    THEN c
    ELSE [c EXCEPT !.store.items =
             MapSet(@, generateKey(method, path, headers, body),
                    [Object |-> [response EXCEPT !.Timestamp = t],
                     Expiration |-> t + c.ttl])]

\* Client.Forward: the request sent to the upstream
Forward(rq) ==
    [Method |-> rq.Method, URL |-> "https://api.openai.com" \o rq.Path,
     Headers |-> rq.Headers, Body |-> rq.Body]

GoProxyIdle ==
    [pc |-> "idle", in |-> GoInput("", "", "", ""), found |-> FALSE,
     status |-> 0, xCache |-> "", body |-> ""]

\* proxyHandler up to the answer from the cache or the call of Forward
proxyHandler(r) ==
    /\ goReq[r].pc = "idle"
    /\ \A q \in GoReqs : q < r => goReq[q].pc # "idle"
    /\ \E in \in workload.inputs :
          LET method == in.method
              path   == GoPath(in.param)
              g      == GoCacheGet(goCache, method, path, in.headers, in.body, goNow)
          IN  IF g.found
              THEN /\ goReq' = [goReq EXCEPT ![r] =
                         [pc |-> "done", in |-> in, found |-> TRUE,
                          status |-> g.entry.StatusCode, xCache |-> "HIT",
                          body |-> g.entry.Body]]
                   /\ UNCHANGED goUpstream
              ELSE /\ goReq' = [goReq EXCEPT ![r] =
                         [GoProxyIdle EXCEPT !.pc = "forward", !.in = in]]
                   /\ goUpstream' = [goUpstream EXCEPT ![r] =
                         Append(@, Forward([Method |-> method, Path |-> path,
                                            Headers |-> in.headers, Body |-> in.body]))]
    /\ UNCHANGED <<goNow, goTicker, goRateLimiter, goHeap, goConfig, goCache>>
    /\ UNCHANGED <<now, cache, ret, limiter, nodeVars>>
    /\ UNCHANGED histVars

\* io.ReadAll of the request body fails: 400
GoBodyError(r) ==
    /\ goReq[r].pc = "idle"
    /\ \A q \in GoReqs : q < r => goReq[q].pc # "idle"
    /\ \E in \in workload.inputs :
          goReq' = [goReq EXCEPT ![r] =
                       [GoProxyIdle EXCEPT !.pc = "done", !.in = in, !.status = 400,
                                           !.body = "Invalid request body"]]
    /\ UNCHANGED <<goNow, goTicker, goRateLimiter, goHeap, goProxyVars>>
    /\ UNCHANGED <<now, cache, ret, limiter, nodeVars>>
    /\ UNCHANGED histVars

\* Forward returns the upstream's response: cache.Set, then the answer
ForwardReturn(r) ==
    /\ goReq[r].pc = "forward"
    /\ \E status \in workload.statuses, mb \in RespSizesMB :
          LET in   == goReq[r].in
              resp == [StatusCode |-> status, Body |-> ToString(r), MB |-> mb,
                       Timestamp |-> 0]
          IN  /\ goCache' = GoCacheSet(goCache, in.method, GoPath(in.param),
                                       in.headers, in.body, resp, goNow)
              /\ goReq' = [goReq EXCEPT ![r] =
                    [@ EXCEPT !.pc = "done", !.status = status, !.xCache = "MISS",
                              !.body = resp.Body]]
    /\ UNCHANGED <<goNow, goTicker, goRateLimiter, goHeap, goConfig, goUpstream>>
    /\ UNCHANGED <<now, cache, ret, limiter, nodeVars>>
    /\ UNCHANGED histVars

\* Forward returns an error: 502
ForwardError(r) ==
    /\ goReq[r].pc = "forward"
    /\ goReq' = [goReq EXCEPT ![r] =
          [@ EXCEPT !.pc = "done", !.status = 502, !.body = "PROXY_ERROR"]]
    /\ UNCHANGED <<goNow, goTicker, goRateLimiter, goHeap, goProxyVars>>
    /\ UNCHANGED <<now, cache, ret, limiter, nodeVars>>
    /\ UNCHANGED histVars

\* the janitor of the store: DeleteExpired every cleanupInterval
GoJanitor ==
    /\ goNow >= goCache.store.janitorAt
    /\ goCache' = [goCache EXCEPT
          !.store.items = [k \in {x \in DOMAIN @ : ~(goNow > @[x].Expiration)} |-> @[k]],
          !.store.janitorAt = @ + goCache.store.interval]
    /\ UNCHANGED <<goNow, goTicker, goRateLimiter, goHeap, goReq, goConfig, goUpstream>>
    /\ UNCHANGED <<now, cache, ret, limiter, nodeVars>>
    /\ UNCHANGED histVars

InitGoProxy ==
    /\ now = 0
    /\ cache = TTLCache(0, 0)
    /\ ret = NullValue
    /\ limiter = RateLimiter(0, [num |-> 0, den |-> 1])
    /\ config = <<>> /\ counters = <<>> /\ req = <<>> /\ upstream = <<>>
    /\ goNow = 0
    /\ goTicker = 0
    /\ goRateLimiter = <<>>
    /\ goHeap = <<>>
    /\ goReq = [r \in GoReqs |-> GoProxyIdle]
    /\ \E w \in GoWorkloads, m \in 1..MaxCacheMB :
          /\ workload = w
          /\ goConfig = [CacheTTL |-> 150, MaxCacheSize |-> m]
    /\ goCache = CacheNew(goConfig.CacheTTL, goConfig.MaxCacheSize, goNow)
    /\ goUpstream = [r \in GoReqs |-> <<>>]
    /\ HistInit

NextGoProxy ==
    \/ GoTick
    \/ GoJanitor
    \/ \E r \in GoReqs :
          proxyHandler(r) \/ GoBodyError(r) \/ ForwardReturn(r) \/ ForwardError(r)

SpecGoProxy == InitGoProxy /\ [][NextGoProxy]_vars

(***************************************************************************)
(* Properties of the Node proxy.                                           *)
(***************************************************************************)
\* the entry stored under key k is not expired at clock reading t
LiveEntry(c, k, t) == k \in DOMAIN c.map /\ ~_isExpired(c.node[c.map[k]], t)

StoredValue(c, k) == c.node[c.map[k]].value

\* the entries a get would report as present: key and value
LiveContent(c, t) == {<<k, StoredValue(c, k)>> : k \in {x \in DOMAIN c.map : LiveEntry(c, x, t)}}

\* invocation r takes the step that follows readBody
LookupStep(r) == req[r].pc = "body" /\ req'[r].pc # "body"

\* invocation r takes the step that follows the read of the upstream's body
RespondStep(r) == req[r].pc = "respBody" /\ req'[r].pc = "done" /\ req'[r].e = ""

\* invocation r takes the step that decides its admission
AdmissionStep(r) == req[r].rl = NullValue /\ req'[r].rl # NullValue

Admitted(r) == req[r].rl # NullValue /\ req[r].rl.ok

Rejected(r) == req[r].rl # NullValue /\ ~req[r].rl.ok

XCache(r) ==
    IF "x-cache" \in DOMAIN req[r].res.headers
    THEN req[r].res.headers["x-cache"] ELSE "none"

ServedFromCache(r) == req[r].pc = "done" /\ req[r].hit # NullValue

\* C2: when a non-bypassed request finds a live cache entry for its key, the
\* client is answered with the stored status, headers and body, and no
\* upstream call is made for that request, then or later.
C2_HitServedWithoutUpstream ==
    [][\A r \in Reqs :
        /\ (LookupStep(r) /\ ~bypass(req[r].in)
                /\ LiveEntry(cache, cacheKey(req[r].in, config), now))
            => LET stored == StoredValue(cache, cacheKey(req[r].in, config))
                   res    == req'[r].res
               IN  /\ req'[r].pc = "done"
                   /\ res.ended
                   /\ res.status = stored.status
                   /\ res.body = stored.body
                   /\ \A h \in DOMAIN stored.headers :
                         h \in DOMAIN res.headers /\ res.headers[h] = stored.headers[h]
                   /\ upstream'[r] = <<>>
        /\ (req[r].pc = "done") => (req'[r] = req[r] /\ upstream'[r] = upstream[r])
      ]_vars

\* C2 witness: a request has been answered from the cache.
C2_Witness ==
    \E r \in Reqs : ServedFromCache(r) /\ req[r].res.ended /\ upstream[r] = <<>>

\* C3: every proxied response carries exactly one x-cache value and it tells
\* how the response was produced: 'hit' when served from the cache, 'miss'
\* when fetched upstream after a lookup miss, 'bypass' or 'bypass-invalidate'
\* when bypassed; in particular a response served from an entry that an
\* earlier miss stored is tagged 'hit'.
C3_XCacheTellsSource ==
    \A r \in Reqs :
        (req[r].pc = "done" /\ Admitted(r) /\ req[r].res.status # 502
            /\ req[r].e = "") =>
            /\ ServedFromCache(r) => XCache(r) = "hit"
            /\ (~ServedFromCache(r) /\ ~req[r].bypass) => XCache(r) = "miss"
            /\ (req[r].bypass /\ req[r].cacheInvalidate) => XCache(r) = "bypass-invalidate"
            /\ (req[r].bypass /\ ~req[r].cacheInvalidate) => XCache(r) = "bypass"

\* two requests alike but for their credentials, both present
SameButCredential(a, b) ==
    /\ a.method = b.method /\ a.path = b.path /\ a.search = b.search
    /\ a.body = b.body
    /\ a.authorization # "" /\ b.authorization # ""
    /\ a.authorization # b.authorization

\* C4: for a client within its rate limit, an upstream that answers 2xx,
\* capacity >= 1 and an unexpired TTL, a non-bypassed POST (the scenario's
\* body carries no streaming flag, its headers no invalidation signal) whose
\* key has no live entry misses, is forwarded and is stored; one whose key
\* has a live entry (the identical immediate repeat) is a hit and is not
\* forwarded; and the same request with another credential has another key,
\* so it misses and is forwarded again.
C4_MissStoreHitMiss ==
    /\ [](\A a, b \in Inputs :
            SameButCredential(a, b) => cacheKey(a, config) # cacheKey(b, config))
    /\ [][\A r \in Reqs :
            LET in  == req[r].in
                key == cacheKey(in, config)
            IN  /\ (LookupStep(r) /\ in.method = "POST" /\ ~bypass(in)) =>
                      IF LiveEntry(cache, key, now)
                      THEN /\ req'[r].hit = StoredValue(cache, key)
                           /\ req'[r].pc = "done"
                           /\ upstream'[r] = <<>>
                      ELSE /\ req'[r].hit = NullValue
                           /\ req'[r].res.headers["x-cache"] = "miss"
                           /\ req'[r].pc = "fetch"
                           /\ Len(upstream'[r]) = 1
                /\ (RespondStep(r) /\ in.method = "POST" /\ ~bypass(in)
                        /\ isOk(req[r].upstreamResp.status)
                        /\ cache.maxEntries >= 1 /\ cache.ttlMs > 0) =>
                      /\ LiveEntry(cache', key, now)
                      /\ StoredValue(cache', key).status = req[r].upstreamResp.status
                      /\ StoredValue(cache', key).body = req[r].upstreamResp.body
       ]_vars

\* C4 witness: the scenario has run: a POST with credential X missed, was
\* forwarded and stored; its repeat was served from the cache with no
\* upstream call; the same POST with credential Y missed and was forwarded.
C4_Witness ==
    \E r1, r2, r3 \in Reqs :
        /\ r1 < r2 /\ r2 < r3
        /\ req[r1].in = PostX /\ req[r2].in = PostX /\ req[r3].in = PostY
        /\ req[r1].pc = "done" /\ req[r1].hit = NullValue /\ Len(upstream[r1]) = 1
        /\ ServedFromCache(r2) /\ upstream[r2] = <<>>
        /\ req[r2].res.body = req[r1].res.body
        /\ req[r3].pc = "done" /\ req[r3].hit = NullValue /\ Len(upstream[r3]) = 1
        /\ req[r3].res.status = 200

\* the body is a JSON object with stream = true
DeclaresStream(in) == isLikelyStream(safeJsonParse(in.body))

\* C5: an admitted /v1 request whose body is a JSON object with stream = true,
\* whatever its method, path or headers, is always forwarded upstream (never
\* answered from the cache) and its response is never stored in the cache.
C5_StreamNeverCached ==
    \A r \in Reqs :
        (Admitted(r) /\ DeclaresStream(req[r].in)) =>
            /\ req[r].hit = NullValue
            /\ req[r].pc \in {"fetch", "respBody", "done"} => Len(upstream[r]) = 1
            /\ \A k \in DOMAIN cache.map : StoredValue(cache, k).body # ToString(r)

C7_RejectedIsTerminal ==
    /\ [](\A r \in Reqs :
            /\ Rejected(r) =>
                  /\ req[r].pc = "done"
                  /\ req[r].res.ended
                  /\ req[r].res.status = 429
                  /\ "retry-after" \in DOMAIN req[r].res.headers
                  /\ upstream[r] = <<>>
                  /\ req[r].hit = NullValue
            /\ (IsV1(req[r].in) /\ (upstream[r] # <<>> \/ req[r].hit # NullValue
                                     \/ req[r].pc \in {"body", "fetch", "respBody"}))
                  => Admitted(r))
    /\ [](cache.stats.hits + cache.stats.misses
             = counters.cache_hits + counters.cache_misses)
    /\ [][\A r \in Reqs :
            /\ (AdmissionStep(r) /\ ~req'[r].rl.ok) =>
                  (cache' = cache /\ upstream' = upstream)
            /\ (cache' # cache) =>
                  \E a \in Reqs : req'[a] # req[a] /\ (Admitted(a) \/ ~IsV1(req[a].in))
       ]_vars

\* C7 witness: a request has been rejected although its key has a live
\* entry in the cache.
C7_Witness ==
    \E r \in Reqs :
        /\ Rejected(r)
        /\ req[r].res.status = 429
        /\ LiveEntry(cache, cacheKey(req[r].in, config), now)

\* the requests of client id admitted so far
AdmittedOf(id) == {r \in Reqs : Admitted(r) /\ pickClientId(req[r].in) = id}

\* C8: tryRemoveToken runs without interleaving, so a client is never
\* admitted more often than its bucket's tokens allow: the requests admitted
\* for one client number at most the bucket size plus what the refill rate
\* has added since the start; with one token left and two requests of the
\* client in progress, at most one is admitted.
C8_AdmissionAtomic ==
    /\ [](\A in \in Inputs :
            LET id == pickClientId(in)
            IN  Cardinality(AdmittedOf(id)) * MsPerSec
                   <= limiter.max * MsPerSec
                        + (now * limiter.refill.num) \div limiter.refill.den)
    /\ [][\A r \in Reqs :
            LET id == pickClientId(req[r].in)
            IN  (AdmissionStep(r) /\ id \in DOMAIN limiter.buckets
                    /\ limiter.buckets[id].last = now) =>
                   /\ limiter.buckets[id].tokens < MsPerSec => ~req'[r].rl.ok
                   /\ req'[r].rl.ok =>
                         limiter'.buckets[id].tokens
                            = limiter.buckets[id].tokens - MsPerSec
       ]_vars

\* C8 witness: with one token left in the client's bucket, of two requests
\* of the client in progress together one has been admitted (remaining 0)
\* and the other rejected at the same clock reading.
C8_Witness ==
    \E r1, r2 \in Reqs :
        /\ r1 # r2
        /\ pickClientId(req[r1].in) = pickClientId(req[r2].in)
        /\ req[r1].pc = "body" /\ Admitted(r1) /\ req[r1].rl.remaining = 0
        /\ Rejected(r2)
        /\ limiter.buckets[pickClientId(req[r1].in)].last = now
        /\ now = 0

\* the upstream call of invocation r fails in this step: the fetch rejects
\* (network error or timeout) or the read of the response body rejects
UpstreamFails(r) == req[r].e = "" /\ req'[r].e # ""

\* C20: when the upstream call of a request fails, at whatever stage, the
\* client gets a 502, upstream_errors goes up by exactly 1, the upstream
\* has been called exactly once for the request and the cache is unchanged.
C20_UpstreamFailureIs502 ==
    [][\A r \in Reqs :
          UpstreamFails(r) =>
             /\ req'[r].res.ended
             /\ req'[r].res.status = 502
             /\ counters'.upstream_errors = counters.upstream_errors + 1
             /\ Len(upstream'[r]) = 1
             /\ cache' = cache
    ]_vars

\* C21: every request that starts forwarding is answered to the client once
\* the upstream timeout has elapsed at the latest, even when the upstream
\* never sends the response head or never finishes the body: with the clock
\* advancing and the timer firing, a request in the upstream call (whose
\* deadline the clock can reach) always leads to an ended response.
C21_ForwardingLeadsToResponded ==
    \A r \in Reqs :
        (req[r].pc = "fetch" /\ req[r].deadline <= MaxTime) ~> req[r].res.ended

\* the upstream timeout of invocation r has fired
TimedOut(r) == req[r].e = "upstream_timeout"

\* C22: once the upstream timeout of a request has fired, the outcome is
\* final: the request stays answered with the one 502 response, the upstream
\* was called once for it, and no response of the upstream to that call is
\* held by the handler, stored in the cache or delivered to any client.
C22_TimeoutIsFinal ==
    \A r \in Reqs :
        TimedOut(r) =>
            /\ req[r].pc = "done"
            /\ req[r].res.ended
            /\ req[r].res.status = 502
            /\ req[r].res.body = "bad_gateway"
            /\ req[r].upstreamResp = NoFetchResult
            /\ Len(upstream[r]) = 1
            /\ \A k \in DOMAIN cache.map : StoredValue(cache, k).body # ToString(r)
            /\ \A q \in Reqs : req[q].res.body # ToString(r)

\* C22 witness: a request timed out, and a later request with the same key
\* has been forwarded, answered with the upstream's response to its own call
\* and stored.
C22_Witness ==
    \E r, q \in Reqs :
        /\ r < q
        /\ TimedOut(r)
        /\ req[q].in = req[r].in
        /\ req[q].pc = "done" /\ req[q].e = "" /\ req[q].hit = NullValue
        /\ req[q].res.status = 200 /\ req[q].res.body = ToString(q)
        /\ LiveEntry(cache, req[q].cacheKey, now)
        /\ StoredValue(cache, req[q].cacheKey).body = ToString(q)

\* invocation r has taken the step that follows readBody
PastLookup(r) == req[r].pc \in {"fetch", "respBody", "done"} /\ Admitted(r)

\* C23: a request that both carries the invalidation signal and declares a
\* streaming body is bypassed exactly once: cache_bypass counts it once (it
\* equals the number of bypassed requests), the request is forwarded upstream
\* exactly once, its x-cache header is 'bypass-invalidate', and nothing is
\* looked up or stored for it (the cache's lookups are those of the requests
\* that were not bypassed, and no entry holds its response).
C23_BothSignalsBypassOnce ==
    /\ counters.cache_bypass = Cardinality({r \in Reqs : req[r].bypass})
    /\ cache.stats.hits + cache.stats.misses
          = Cardinality({r \in Reqs : PastLookup(r) /\ ~req[r].bypass})
    /\ \A r \in Reqs :
          (PastLookup(r) /\ cacheInvalidate(req[r].in) /\ DeclaresStream(req[r].in)) =>
              /\ req[r].bypass
              /\ Len(upstream[r]) = 1
              /\ req[r].hit = NullValue
              /\ XCache(r) = "bypass-invalidate"
              /\ \A k \in DOMAIN cache.map : StoredValue(cache, k).body # ToString(r)

\* C23 witness: a request with both signals has been answered with the
\* upstream's 200, counted as the one bypass, with no lookup and no store.
C23_Witness ==
    \E r \in Reqs :
        /\ req[r].in = PostXStreamInval
        /\ req[r].pc = "done" /\ req[r].res.status = 200
        /\ req[r].res.body = ToString(r)
        /\ XCache(r) = "bypass-invalidate"
        /\ counters.cache_bypass = 1
        /\ cache.stats.hits + cache.stats.misses = 0
        /\ cache.stats.stores = 0

\* invocation r, a POST /admin/cache/purge, takes a step of its handler
PurgeStep(r) == IsAdminPurge(req[r].in) /\ req[r].pc # "idle" /\ req'[r] # req[r]

C29_NonJsonBypassed ==
    \A r \in Reqs :
        (PastLookup(r) /\ ~isJson(req[r].in)) =>
            /\ req[r].hit = NullValue
            /\ \A k \in DOMAIN cache.map : StoredValue(cache, k).body # ToString(r)

\* the requests received and not yet answered
Unanswered == {r \in Reqs : req[r].pc \notin {"idle", "done"}}

\* C33: in_flight equals the number of requests received and not yet
\* answered: every request adds 1 on arrival and takes 1 away on whichever
\* path answers it, so the counter is never negative and is 0 whenever no
\* request is being handled.
C33_InFlightCountsUnanswered ==
    /\ counters.in_flight = Cardinality(Unanswered)
    /\ counters.in_flight >= 0
    /\ Unanswered = {} => counters.in_flight = 0

\* invocation r takes a step of its handler
HandlerStep(r) == req'[r] # req[r]

\* C34: no step of a bypassed request (invalidation signal or detected
\* streaming body) calls the cache: the stored entries, their expiry and
\* recency order and the cache's hits, misses, stores and evictions are the
\* same after the step as before, as are the proxy's hit, miss and store
\* counters; so an unexpired entry stored earlier under the same key is
\* still there for the lookup of the next identical request that is not
\* bypassed, which is answered with it.
C34_BypassLeavesCacheAlone ==
    [][\A r \in Reqs :
          /\ (HandlerStep(r) /\ Admitted(r)' /\ bypass(req'[r].in)) =>
                /\ cache' = cache
                /\ counters'.cache_hits = counters.cache_hits
                /\ counters'.cache_misses = counters.cache_misses
                /\ counters'.cache_stores = counters.cache_stores
          /\ (LookupStep(r) /\ ~bypass(req[r].in)
                /\ LiveEntry(cache, cacheKey(req[r].in, config), now)) =>
                /\ req'[r].pc = "done"
                /\ req'[r].hit = StoredValue(cache, cacheKey(req[r].in, config))
                /\ req'[r].res.body = req'[r].hit.body
    ]_vars

\* C34 witness: the first request's response was stored, the second, the
\* same request with the invalidation signal, was bypassed and answered by
\* the upstream, and the third, identical to the first, is answered from the
\* cache with the first one's response; one store, one hit, one miss.
C34_Witness ==
    /\ req[1].in = PostX /\ req[1].pc = "done" /\ XCache(1) = "miss"
    /\ req[2].in = PostXInval /\ req[2].pc = "done"
    /\ XCache(2) = "bypass-invalidate" /\ req[2].res.body = ToString(2)
    /\ req[3].in = PostX /\ req[3].pc = "done" /\ req[3].hit # NullValue
    /\ req[3].res.body = ToString(1) /\ upstream[3] = <<>>
    /\ cacheKey(PostXInval, config) = cacheKey(PostX, config)
    /\ StoredValue(cache, cacheKey(PostX, config)).body = ToString(1)
    /\ cache.stats.stores = 1 /\ cache.stats.hits = 1 /\ cache.stats.misses = 1
    /\ counters.cache_bypass = 1

\* invocation r has looked up its key, missed, and not yet stored or failed
AwaitingUpstream(r) ==
    req[r].pc \in {"fetch", "respBody"} /\ Admitted(r) /\ ~req[r].bypass

\* invocation r was answered with the upstream's response after storing it
StoredOwn(r) ==
    /\ req[r].pc = "done" /\ Admitted(r) /\ req[r].e = ""
    /\ req[r].hit = NullValue /\ Len(upstream[r]) = 1
    /\ shouldCache(req[r], config)

\* C35: when two identical cacheable requests overlap, the one that looks
\* up while the other is awaiting the upstream (nothing stored under the key)
\* misses and is forwarded as well; each store puts the storing request's
\* response under the key, in one node, adds 1 to stores, keeps the size
\* within the capacity and the map and list consistent, so after both
\* complete the key holds the later store's value and stores has grown by 2.
C35_OverlappingMissesStoreTwice ==
    /\ [][\A r \in Reqs :
             /\ (/\ LookupStep(r) /\ ~bypass(req[r].in)
                 /\ cacheKey(req[r].in, config) \notin DOMAIN cache.map
                 /\ \E o \in Reqs \ {r} :
                       AwaitingUpstream(o) /\ req[o].in = req[r].in) =>
                    /\ req'[r].pc = "fetch"
                    /\ req'[r].hit = NullValue
                    /\ Len(upstream'[r]) = 1
                    /\ cache'.stats.misses = cache.stats.misses + 1
             /\ (RespondStep(r) /\ shouldCache(req[r], config)) =>
                    LET k == req[r].cacheKey
                    IN  /\ k \in DOMAIN cache'.map
                        /\ Cardinality({n \in DOMAIN cache'.node :
                                           cache'.node[n].k = k}) = 1
                        /\ StoredValue(cache', k).body = ToString(r)
                        /\ StoredValue(cache', k).status = req[r].upstreamResp.status
                        /\ cache'.stats.stores = cache.stats.stores + 1
                        /\ counters'.cache_stores = counters.cache_stores + 1
                        /\ Cardinality(DOMAIN cache'.map) <= cache.maxEntries
                        /\ C31_MapAndListAgree'
      ]_vars
    /\ [](/\ cache.stats.stores = Cardinality({r \in Reqs : StoredOwn(r)})
          /\ counters.cache_stores = cache.stats.stores)

\* C35 witness: two identical requests have both missed and both been
\* answered by the upstream with no clock step and no third request, so
\* both looked up before either stored; the cache has the one entry, holding
\* the response of the request that arrived first and stored last.
C35_Witness ==
    /\ now = 0
    /\ req[1].in = PostX /\ req[2].in = PostX /\ req[3].pc = "idle"
    /\ StoredOwn(1) /\ StoredOwn(2)
    /\ req[1].cacheKey = req[2].cacheKey
    /\ cache.stats.misses = 2 /\ cache.stats.hits = 0
    /\ cache.stats.stores = 2 /\ cache.stats.evictions = 0
    /\ DOMAIN cache.map = {req[1].cacheKey}
    /\ StoredValue(cache, req[1].cacheKey).body = ToString(1)

(***************************************************************************)
(* Properties of the Node proxy's cache key.                               *)
(***************************************************************************)
\* the cache key of request r as the string the cache is called with
KeyString(r) == Join(req[r].cacheKey)

\* the credential sent upstream for request r
CredentialUsed(r) == upstream[r][1].authorization

\* requests a and b have the same method, path, query and body
SameShape(a, b) ==
    /\ req[a].in.method = req[b].in.method
    /\ req[a].in.path = req[b].in.path
    /\ req[a].in.search = req[b].in.search
    /\ req[a].in.body = req[b].in.body

\* C24: the auth component of the cache key is the fingerprint of the
\* credential actually sent upstream: two requests of the same method, path,
\* query and body that are forwarded with the same upstream credential derive
\* the same cache key, and so do two such requests without a credential.
C24_KeyFollowsUpstreamCredential ==
    \A a, b \in KeyReqs :
        (req[a].pc = "keyed" /\ req[b].pc = "keyed" /\ SameShape(a, b)) =>
            /\ CredentialUsed(a) = CredentialUsed(b) => KeyString(a) = KeyString(b)
            /\ (req[a].in.authorization = "" /\ req[b].in.authorization = "") =>
                  KeyString(a) = KeyString(b)

\* the (method, path, query, credential, body) tuple of request r, with the
\* credential the request is forwarded with and the body left out for GET
KeyTuple(r) ==
    <<req[r].in.method, req[r].in.path, req[r].in.search, CredentialUsed(r),
      IF req[r].in.method = "GET" THEN "" ELSE req[r].in.body>>

\* C25: identical (method, path, query, credential, body) tuples derive
\* identical cache keys, and two tuples that differ in any component (the
\* body counting only for non-GET methods) derive different keys: the
\* ':'-joined string of one tuple never equals that of a different tuple.
C25_KeyInjective ==
    \A a, b \in KeyReqs :
        (req[a].pc = "keyed" /\ req[b].pc = "keyed") =>
            (KeyTuple(a) = KeyTuple(b) <=> KeyString(a) = KeyString(b))

(***************************************************************************)
(* Properties of the Go proxy's handler and response cache.                *)
(***************************************************************************)
\* the cache key of the request of invocation r
GoKeyOf(r) ==
    generateKey(goReq[r].in.method, GoPath(goReq[r].in.param),
                goReq[r].in.headers, goReq[r].in.body)

\* requests a and b differ in their query strings only
DifferInQueryOnly(a, b) ==
    /\ goReq[a].in.method = goReq[b].in.method
    /\ goReq[a].in.param = goReq[b].in.param
    /\ goReq[a].in.headers = goReq[b].in.headers
    /\ goReq[a].in.body = goReq[b].in.body
    /\ goReq[a].in.query # goReq[b].in.query

\* C26: the query string is part of a request's identity: two GET requests
\* to the same /v1 path with the same headers and body that differ only in
\* the query string derive different cache keys, a response fetched for one
\* is never served from the cache to the other, and a forwarded request
\* carries its query string to the upstream.
C26_QueryIsPartOfIdentity ==
    /\ \A a, b \in GoReqs :
          (goReq[a].pc # "idle" /\ goReq[b].pc # "idle" /\ DifferInQueryOnly(a, b)) =>
              /\ GoKeyOf(a) # GoKeyOf(b)
              /\ goReq[a].found => goReq[a].body # ToString(b)
    /\ \A r \in GoReqs :
          goUpstream[r] # <<>> =>
              goUpstream[r][1].URL
                 = "https://api.openai.com" \o GoPath(goReq[r].in.param) \o goReq[r].in.query

\* invocation r takes the step in which Forward returns a response
ForwardStep(r) ==
    goReq[r].pc = "forward" /\ goReq'[r].pc = "done" /\ goReq'[r].xCache = "MISS"

\* the request of invocation r is a GET, or a POST to one of the three paths
CacheableRequest(r) ==
    \/ goReq[r].in.method = "GET"
    \/ /\ goReq[r].in.method = "POST"
       /\ goReq[r].in.param \in {"/chat/completions", "/completions", "/embeddings"}

RECURSIVE ItemsMB(_, _)
ItemsMB(items, ks) ==
    IF ks = {} THEN 0
    ELSE LET k == CHOOSE x \in ks : TRUE
         IN  items[k].Object.MB + ItemsMB(items, ks \ {k})

\* the unexpired items of the store at clock reading t
Unexpired(store, t) == {k \in DOMAIN store.items : ~(t > store.items[k].Expiration)}

\* C30: the cache is bounded by the configured MAX_CACHE_SIZE: the amount
\* stored within one TTL window (the sizes of the unexpired entries, summed)
\* never exceeds the configured maximum.
C30_CacheWithinMaxSize ==
    ItemsMB(goCache.store.items, Unexpired(goCache.store, goNow)) <= goConfig.MaxCacheSize

(***************************************************************************)
(* Properties of the Go proxy's rate limiter.                              *)
(***************************************************************************)
\* the requests of client key k that the middleware let through at clock
\* reading t
GoAdmittedAt(k, t) ==
    {r \in GoReqs : goReq[r].pc = "next" /\ goReq[r].key = k /\ goReq[r].at = t}

\* C9: at one clock reading (an instantaneous spike, in which no token is
\* refilled) the middleware lets through at most burst requests of one
\* client, also when the cleanup tick falls within the spike
C9_SpikeAtMostBurst ==
    \A k \in GoKeys, t \in 0..MaxGoTime :
        Cardinality(GoAdmittedAt(k, t)) <= goRateLimiter.burst

\* request r returns from getLimiter
GetLimiterStep(r) == goReq[r].pc = "getLimiter" /\ goReq'[r].pc = "allow"

\* the cleanup ticker fires in this step
CleanupStep == goTicker' # goTicker

\* the requests that hold a limiter for client key k
HoldersOf(k) == {r \in GoReqs : goReq[r].key = k /\ goReq[r].limiter # Null}

\* C36: under every interleaving of requests of one client IP with no
\* cleanup tick among them, getLimiter makes at most one limiter for the IP
\* and hands that one to all of them: a call that finds the IP in the map
\* returns the mapped limiter and makes none, a call that does not makes
\* exactly one and maps it, and no step but a cleanup tick changes or removes
\* a mapped limiter. So as long as no cleanup tick has fired, all requests
\* of an IP hold the same limiter, there are as many limiters as IPs in the
\* map, and the requests of an IP admitted at one clock reading are at most
\* burst.
C36_OneLimiterPerIP ==
    /\ [][/\ \A r \in GoReqs :
               GetLimiterStep(r) =>
                  LET k == goReq[r].key
                  IN  /\ k \in DOMAIN goRateLimiter'.limiters
                      /\ goReq'[r].limiter = goRateLimiter'.limiters[k]
                      /\ IF k \in DOMAIN goRateLimiter.limiters
                         THEN /\ goRateLimiter' = goRateLimiter
                              /\ goHeap' = goHeap
                         ELSE /\ Len(goHeap') = Len(goHeap) + 1
                              /\ goReq'[r].limiter = Len(goHeap')
                              /\ goHeap'[Len(goHeap')].tokens
                                    = goRateLimiter.burst * SecPerMin
                      /\ \A o \in HoldersOf(k) :
                            (k \in DOMAIN goRateLimiter.limiters
                               /\ goRateLimiter.limiters[k] = goReq[o].limiter) =>
                                  goReq'[r].limiter = goReq[o].limiter
          /\ (\A r \in GoReqs : ~GetLimiterStep(r)) => Len(goHeap') = Len(goHeap)
          /\ ~CleanupStep =>
               \A k \in DOMAIN goRateLimiter.limiters :
                  /\ k \in DOMAIN goRateLimiter'.limiters
                  /\ goRateLimiter'.limiters[k] = goRateLimiter.limiters[k]
       ]_vars
    /\ [](goTicker = goRateLimiter.cleanup =>
            /\ \A k \in GoKeys :
                  /\ \A r1, r2 \in HoldersOf(k) : goReq[r1].limiter = goReq[r2].limiter
                  /\ HoldersOf(k) # {} =>
                        /\ k \in DOMAIN goRateLimiter.limiters
                        /\ \A r \in HoldersOf(k) :
                              goReq[r].limiter = goRateLimiter.limiters[k]
                  /\ \A t \in 0..MaxGoTime :
                        Cardinality(GoAdmittedAt(k, t)) <= goRateLimiter.burst
            /\ Len(goHeap) = Cardinality(DOMAIN goRateLimiter.limiters))

\* C36 witness: three requests of one IP at one clock reading, no cleanup
\* tick: all three were handed the one limiter made, the second and third
\* have taken the two tokens of its bucket while the first, which holds the
\* same limiter, has not called Allow yet.
C36_Witness ==
    /\ goTicker = goRateLimiter.cleanup
    /\ goNow = 0
    /\ goRateLimiter.burst = 2
    /\ \A r \in GoReqs : goReq[r].key = "10.0.0.1" /\ goReq[r].limiter = 1
    /\ Len(goHeap) = 1
    /\ goHeap[1].tokens = 0
    /\ goReq[1].pc = "allow"
    /\ goReq[2].pc = "next" /\ goReq[3].pc = "next"

====
